---- MODULE Spec2Model ----
(***************************************************************************)
(* Model of pdf_to_excel.py (class PDFProcessor): direct text extraction,  *)
(* OCR, the extraction quality classifier, the processing strategy         *)
(* selector of process_pdf_to_excel and process_multiple_pdfs_to_excel,    *)
(* and the structuring engine format_text_to_structure.                    *)
(*                                                                         *)
(* A Python str is a sequence of characters; a character is a one-letter   *)
(* TLA+ string, except the non-ASCII ones, which are named: "PLUSMINUS"    *)
(* (U+00B1), "ENDASH" (U+2013), "DEG" (U+00B0), "UFFFD" (U+FFFD).          *)
(***************************************************************************)
EXTENDS Integers, Sequences, FiniteSets, TLC

VARIABLES
  entry,                \* which entry point runs: "single", "multi", or a probe of one function
  use_ocr,              \* the use_ocr argument
  pdf_paths,            \* the pdf_paths argument (document ids; single: one element)
  idx,                  \* 1-based index of the document being processed
  pc,                   \* position in the entry point's code
  text,                 \* local `text`
  ocr_text,             \* local `ocr_text`
  processing_method,    \* local `processing_method` (multi only)
  structured_data,      \* local `structured_data`
  all_structured_data,  \* accumulated rows (multi only)
  processing_summary,   \* list of summary entries (multi only)
  excel,                \* the row sequences handed to write_to_excel, one per call
  outcome,              \* "running", "returned", or the exception that left the entry point
  calls,                \* log of <<idx, "extract" | "ocr">>: strategy calls made so far
  probe                 \* input/output of the function a probe specification applies

vars == << entry, use_ocr, pdf_paths, idx, pc, text, ocr_text, processing_method,
           structured_data, all_structured_data, processing_summary, excel,
           outcome, calls, probe >>

----------------------------------------------------------------------------
(* Characters and str methods                                              *)

Digits == {"0","1","2","3","4","5","6","7","8","9"}

Uppers == <<"A","B","C","D","E","F","G","H","I","J","K","L","M",
            "N","O","P","Q","R","S","T","U","V","W","X","Y","Z">>

Lowers == <<"a","b","c","d","e","f","g","h","i","j","k","l","m",
            "n","o","p","q","r","s","t","u","v","w","x","y","z">>

Whitespace == {" ", "\n", "\t", "\r"}

Range(f) == {f[i] : i \in DOMAIN f}

UpperSet == Range(Uppers)
LowerSet == Range(Lowers)
AlphaSet == UpperSet \cup LowerSet

IsDigit(c) == c \in Digits
IsUpper(c) == c \in UpperSet
IsAlpha(c) == c \in AlphaSet
IsSpace(c) == c \in Whitespace
NotSpace(c) == c \notin Whitespace

\* str.upper() / str.lower(), character by character
UpperMap == [c \in LowerSet |-> Uppers[CHOOSE i \in DOMAIN Lowers : Lowers[i] = c]]
LowerMap == [c \in UpperSet |-> Lowers[CHOOSE i \in DOMAIN Uppers : Uppers[i] = c]]
UpperChar(c) == IF c \in LowerSet THEN UpperMap[c] ELSE c
LowerChar(c) == IF c \in UpperSet THEN LowerMap[c] ELSE c
Upper(s) == [i \in 1..Len(s) |-> UpperChar(s[i])]
Lower(s) == [i \in 1..Len(s) |-> LowerChar(s[i])]

Rep(c, n) == [i \in 1..n |-> c]

Min(S) == CHOOSE x \in S : \A y \in S : x <= y
Max(S) == CHOOSE x \in S : \A y \in S : x >= y

\* F(v), with v evaluated once and bound to the argument of F: a local name
\* for a value that is used several times
WithValue(v, F(_)) == CHOOSE r \in {F(x) : x \in {v}} : TRUE

\* the first index j >= i with P(s[j]); Len(s) + 1 when there is none
FirstFrom(s, i, P(_)) ==
  CHOOSE j \in i..(Len(s) + 1) :
    /\ j = Len(s) + 1 \/ P(s[j])
    /\ \A k \in i..(j - 1) : ~P(s[k])

\* the last index j with P(s[j]); 0 when there is none
LastWhere(s, P(_)) ==
  Len(s) - (CHOOSE d \in 0..Len(s) :
              /\ d = Len(s) \/ P(s[Len(s) - d])
              /\ \A k \in 0..(d - 1) : ~P(s[Len(s) - k]))

\* str.strip(): without the leading and trailing whitespace
Strip(s) == SubSeq(s, FirstFrom(s, 1, NotSpace), LastWhere(s, NotSpace))

\* `p in s` for strings
Contains(s, p) ==
  \/ p = <<>>
  \/ \E i \in 1..(Len(s) - Len(p) + 1) :
       s[i] = p[1] /\ SubSeq(s, i, i + Len(p) - 1) = p

StartsWith(s, p) == Len(s) >= Len(p) /\ SubSeq(s, 1, Len(p)) = p
EndsWith(s, p) == Len(s) >= Len(p) /\ SubSeq(s, Len(s) - Len(p) + 1, Len(s)) = p

\* s.count(c) for a one-character c
CountChar(s, c) == Cardinality({i \in 1..Len(s) : s[i] = c})

\* s.replace(a, b) for one-character a and b
ReplaceChar(s, a, b) == [i \in 1..Len(s) |-> IF s[i] = a THEN b ELSE s[i]]

\* s.split(sep) for a one-character sep: the pieces between the separators,
\* from index i on
RECURSIVE SplitFrom(_, _, _)
SplitFrom(s, i, sep) ==
  LET IsSep(c) == c = sep
  IN  WithValue(FirstFrom(s, i, IsSep), LAMBDA j :
        IF j > Len(s) THEN << SubSeq(s, i, Len(s)) >>
        ELSE << SubSeq(s, i, j - 1) >> \o SplitFrom(s, j + 1, sep))

SplitOn(s, sep) == SplitFrom(s, 1, sep)

\* s.split(): the maximal runs of non-whitespace characters, from index i on
RECURSIVE WordsFrom(_, _)
WordsFrom(s, i) ==
  WithValue(FirstFrom(s, i, NotSpace), LAMBDA b :
    IF b > Len(s) THEN <<>>
    ELSE WithValue(FirstFrom(s, b, IsSpace), LAMBDA e :
           << SubSeq(s, b, e - 1) >> \o WordsFrom(s, e)))

SplitWords(s) == WordsFrom(s, 1)

\* sep.join(parts) for a one-character sep
RECURSIVE Join(_, _)
Join(parts, sep) ==
  IF parts = <<>> THEN <<>>
  ELSE IF Len(parts) = 1 THEN parts[1]
  ELSE parts[1] \o <<sep>> \o Join(Tail(parts), sep)

\* f"{n:02d}": decimal digits, zero-padded to width 2
DigitChar(d) == CHOOSE c \in Digits :
                  c = <<"0","1","2","3","4","5","6","7","8","9">>[d + 1]
RECURSIVE Decimal(_)
Decimal(n) == IF n < 10 THEN <<DigitChar(n)>>
              ELSE Decimal(n \div 10) \o <<DigitChar(n % 10)>>
Pad02d(n) == IF n < 10 THEN <<"0">> \o Decimal(n) ELSE Decimal(n)

----------------------------------------------------------------------------
(* Text Extractor, OCR and the Extraction Quality Classifier               *)
(*                                                                         *)
(* A document is what the libraries make of the file: whether it exists,   *)
(* whether PdfReader opens it, whether convert_from_path rasterizes it,    *)
(* and per page what page.extract_text() and the two image_to_string       *)
(* calls do (return a str or raise).                                       *)

Returns(t) == [raises |-> FALSE, text |-> t]
Raises == [raises |-> TRUE, text |-> <<>>]

\* the body of the page loop of extract_text_from_pdf, folded over the pages
RECURSIVE ExtractPages(_, _)
ExtractPages(pages, acc) ==
  IF pages = <<>> THEN acc
  ELSE LET page == pages[1].direct
       IN  IF page.raises THEN ExtractPages(Tail(pages), acc)
           ELSE IF Strip(page.text) # <<>>
                  THEN ExtractPages(Tail(pages), acc \o page.text \o <<"\n">>)
                  ELSE ExtractPages(Tail(pages), acc)

extract_text_from_pdf(doc) ==
  IF doc.openFails THEN <<>>
  ELSE WithValue(ExtractPages(doc.pages, <<>>), LAMBDA t : Strip(t))

\* one iteration of the page loop of ocr_pdf on the running (text, successful_pages)
OcrPage(page, acc) ==
  IF page.primary.raises THEN acc
  ELSE IF Strip(page.primary.text) # <<>>
    THEN [text |-> acc.text \o page.primary.text \o <<"\n">>,
          successful_pages |-> acc.successful_pages + 1]
  ELSE IF page.alt.raises THEN acc
  ELSE IF Strip(page.alt.text) # <<>>
    THEN [text |-> acc.text \o page.alt.text \o <<"\n">>,
          successful_pages |-> acc.successful_pages + 1]
  ELSE acc

RECURSIVE OcrPages(_, _)
OcrPages(pages, acc) ==
  IF pages = <<>> THEN acc
  ELSE WithValue(OcrPage(pages[1], acc), LAMBDA next : OcrPages(Tail(pages), next))

ocr_pdf(doc) ==
  IF doc.rasterFails THEN <<>>
  ELSE WithValue(OcrPages(doc.pages, [text |-> <<>>, successful_pages |-> 0]),
                 LAMBDA r : IF r.successful_pages = 0 THEN <<>> ELSE Strip(r.text))

\* Thresholds of _is_low_quality_extraction. alpha_chars / total_chars < 0.3 is
\* compared as 10 * alpha_chars < 3 * total_chars and problem_chars >
\* total_chars * 0.05 as 20 * problem_chars > total_chars: the float comparisons
\* agree with the exact ones for every length below 10^15.
MinQualityLen == 50

\* the classifier with "<=" in place of "<" in the comparison of the
\* alphabetic share
_is_low_quality_extraction_le(t) ==
  LET alpha_chars   == Cardinality({i \in 1..Len(t) : IsAlpha(t[i])})
      total_chars   == Len(t)
      problem_chars == CountChar(t, "UFFFD") + CountChar(t, "\\") + CountChar(t, "|")
  IN  IF Len(Strip(t)) < MinQualityLen THEN TRUE
      ELSE IF total_chars > 0 /\ 10 * alpha_chars <= 3 * total_chars THEN TRUE
      ELSE IF 20 * problem_chars > total_chars THEN TRUE
      ELSE FALSE

_is_low_quality_extraction(t) ==
  LET alpha_chars   == Cardinality({i \in 1..Len(t) : IsAlpha(t[i])})
      total_chars   == Len(t)
      problem_chars == CountChar(t, "UFFFD") + CountChar(t, "\\") + CountChar(t, "|")
  IN  IF Len(Strip(t)) < MinQualityLen THEN TRUE
      ELSE IF total_chars > 0 /\ 10 * alpha_chars < 3 * total_chars THEN TRUE
      ELSE IF 20 * problem_chars > total_chars THEN TRUE
      ELSE FALSE

\* Path(pdf_path).stem: the last path component without its last suffix
Stem(path) ==
  LET IsDot(c) == c = "."
  IN  WithValue(SplitOn(path, "/"), LAMBDA parts :
        WithValue(parts[Len(parts)], LAMBDA name :
          WithValue(LastWhere(name, IsDot), LAMBDA dot :
            IF dot <= 1 THEN name ELSE SubSeq(name, 1, dot - 1))))

----------------------------------------------------------------------------
(* Structuring Engine: format_text_to_structure                            *)

\* index of the last character of the longest run of P-characters that starts
\* at i (i - 1 when s[i] is no such character): what a greedy \d+ or [A-Z]+
\* consumes. Nothing after such a run in the patterns below can match a
\* character of the run, so backtracking never yields another match.
RunEnd(s, i, P(_)) ==
  LET NotP(c) == ~P(c)
  IN  IF i > Len(s) THEN i - 1 ELSE FirstFrom(s, i, NotP) - 1

IsAt(s, i, c) == i >= 1 /\ i <= Len(s) /\ s[i] = c

\* (\d+[-.]) matched at i: the index after the group, 0 when it does not match
RefGroup(s, i) ==
  IF i = 0 THEN 0
  ELSE WithValue(RunEnd(s, i, IsDigit), LAMBDA e :
         IF e >= i /\ (IsAt(s, e + 1, "-") \/ IsAt(s, e + 1, ".")) THEN e + 2 ELSE 0)

\* r'P?(\d+[-.]){3}\d+' matched at i: index of the last matched character, else 0
MatchDocRefAt(s, i) ==
  WithValue(RefGroup(s, IF IsAt(s, i, "P") THEN i + 1 ELSE i), LAMBDA g1 :
    WithValue(RefGroup(s, g1), LAMBDA g2 :
      WithValue(RefGroup(s, g2), LAMBDA g3 :
        IF g3 = 0 THEN 0
        ELSE WithValue(RunEnd(s, g3, IsDigit), LAMBDA e :
               IF e >= g3 THEN e ELSE 0))))

\* r'\d{2}-\d{2}-[A-Z]{4}-\d{4}' matched at i
MatchLoc1At(s, i) ==
  IF /\ i + 14 <= Len(s)
     /\ \A k \in {0, 1, 3, 4, 11, 12, 13, 14} : IsDigit(s[i + k])
     /\ \A k \in {2, 5, 10} : s[i + k] = "-"
     /\ \A k \in 6..9 : IsUpper(s[i + k])
  THEN i + 14 ELSE 0

\* r'[A-Z]{2,}-\d+' matched at i
MatchLoc2At(s, i) ==
  WithValue(RunEnd(s, i, IsUpper), LAMBDA u :
    IF u >= i + 1 /\ IsAt(s, u + 1, "-")
      THEN WithValue(RunEnd(s, u + 2, IsDigit), LAMBDA e :
             IF e >= u + 2 THEN e ELSE 0)
      ELSE 0)

\* r'\d+-\d+-[A-Z]+' matched at i
MatchLoc3At(s, i) ==
  WithValue(RunEnd(s, i, IsDigit), LAMBDA d1 :
    IF d1 >= i /\ IsAt(s, d1 + 1, "-")
      THEN WithValue(RunEnd(s, d1 + 2, IsDigit), LAMBDA d2 :
             IF d2 >= d1 + 2 /\ IsAt(s, d2 + 1, "-")
               THEN WithValue(RunEnd(s, d2 + 2, IsUpper), LAMBDA u :
                      IF u >= d2 + 2 THEN u ELSE 0)
               ELSE 0)
      ELSE 0)

\* re.search(pattern, s): the leftmost match; [found, group]
Search(s, MatchAt(_, _)) ==
  WithValue([i \in 1..Len(s) |-> MatchAt(s, i)], LAMBDA ends :
    LET Matches(e) == e # 0
    IN  WithValue(FirstFrom(ends, 1, Matches), LAMBDA start :
          IF start > Len(s) THEN [found |-> FALSE, group |-> <<>>]
          ELSE [found |-> TRUE, group |-> SubSeq(s, start, ends[start])]))

SearchDocRef(s) == Search(s, MatchDocRefAt)

\* re.search(location_patterns[k], line)
SearchLoc(k, line) ==
  IF k = 1 THEN Search(line, MatchLoc1At)
  ELSE IF k = 2 THEN Search(line, MatchLoc2At)
  ELSE Search(line, MatchLoc3At)

\* lines = [line.strip() for line in text.split('\n') if line.strip()]
TextLines(t) ==
  LET NotBlank(line) == line # <<>>
  IN  WithValue(SplitOn(t, "\n"), LAMBDA raw :
        SelectSeq([k \in 1..Len(raw) |-> Strip(raw[k])], NotBlank))

DefaultDocRef == <<"P","1","1","5","6","9","-","1","1","-","9","9","-","4","0","-","2","6","1","9","-","1">>

DefaultLocation == <<"1","1","-","1","8","-","X","T","G","D","-","5","4","0","3">>

SampleLocation == <<"1","1","-","1","8","-","X","T","G","D","-","5","4","0","4">>

ClassNumber == <<"F","G","-","F","G","A","S">>

ClassType == <<"0","0","3">>

RefLines == 20

MinLocationLen == 8

\* found_ref / full_doc_ref with its "P" in front
WithP(ref) == IF StartsWith(ref, <<"P">>) THEN ref ELSE <<"P">> \o ref

\* full_doc_ref with its "-1" at the end
WithSuffix(ref) == IF EndsWith(ref, <<"-","1">>) THEN ref ELSE ref \o <<"-","1">>

\* the reference derived from a document name (the same code in both functions)
NameDocRef(pdf_name) ==
  WithValue(SearchDocRef(pdf_name), LAMBDA pdf_match :
    IF pdf_match.found
      THEN WithValue(WithP(pdf_match.group), LAMBDA full_doc_ref :
             WithSuffix(full_doc_ref))
      ELSE <<"P">> \o ReplaceChar(pdf_name, "-", ".") \o <<"-","1">>)

\* the search for a reference over all the lines instead of lines[:20]
TextDocRef_alllines(lines, default) ==
  WithValue([k \in 1..Len(lines) |-> SearchDocRef(lines[k])], LAMBDA matches :
    LET Found(match) == match.found
    IN  WithValue(FirstFrom(matches, 1, Found), LAMBDA k :
          IF k > Len(matches) THEN default ELSE WithP(matches[k].group)))

\* `for line in lines[:20]: ... break`: the first of the first RefLines lines
\* with a match replaces the default; found_ref gets its "P"
TextDocRef(lines, default) ==
  WithValue([k \in 1..Min({Len(lines), RefLines}) |-> SearchDocRef(lines[k])],
            LAMBDA matches :
    LET Found(match) == match.found
    IN  WithValue(FirstFrom(matches, 1, Found), LAMBDA k :
          IF k > Len(matches) THEN default ELSE WithP(matches[k].group)))

FullDocRef(lines, pdf_name) ==
  TextDocRef(lines, IF pdf_name # <<>> THEN NameDocRef(pdf_name) ELSE DefaultDocRef)

\* the inner loop over location_patterns for one line: the first pattern, in
\* order, whose leftmost match is longer than MinLocationLen assigns
\* functional_location and breaks out of the inner loop. [assigned, value]
LocationInLine(line) ==
  WithValue([k \in 1..3 |-> SearchLoc(k, line)], LAMBDA matches :
    LET Qualifies(match) == match.found /\ Len(match.group) > MinLocationLen
    IN  WithValue(FirstFrom(matches, 1, Qualifies), LAMBDA k :
          IF k > 3 THEN [assigned |-> FALSE, value |-> <<>>]
          ELSE [assigned |-> TRUE, value |-> matches[k].group]))

\* the outer loop over the lines: the break leaves only the inner loop, so the
\* loop runs over every line and each line with a hit assigns again
LocationLoop(lines, default) ==
  WithValue([k \in 1..Len(lines) |-> LocationInLine(lines[k])], LAMBDA found :
    LET Assigned(f) == f.assigned
    IN  WithValue(LastWhere(found, Assigned), LAMBDA k :
          IF k = 0 THEN default ELSE found[k].value))

FunctionalLocation(lines) == LocationLoop(lines, DefaultLocation)

equipment_attributes ==
 <<
  << <<"N","A","C","C","0","1">>,
     <<"PLUSMINUS","1","0">>,
     <<"A","c","c","u","r","a","c","y">>,
     <<"%">> >>,
  << <<"H","S","E","-","H","A","Z","_","A","R","E","A">>,
     <<"H","a","z","a","r","d","o","u","s"," ","A","r","e","a">>,
     <<"A","r","e","a"," ","C","l","a","s","s","i","f","i","c","a","t","i","o","n">>,
     <<>> >>,
  << <<"C","A","L","R","0","1">>,
     <<"0","ENDASH","5","0">>,
     <<"C","a","l","i","b","r","a","t","e","d"," ","R","a","n","g","e">>,
     <<"p","p","m">> >>,
  << <<"D","E","T","C","O","M","M">>,
     <<"4","ENDASH","2","0"," ","m","A"," ","(","H","A","R","T",")">>,
     <<"D","e","t","e","c","t","o","r"," ","C","o","m","m","u","n","i","c","a","t","i","o","n">>,
     <<>> >>,
  << <<"E","N","V","I","R","O","N","T">>,
     <<>>,
     <<"E","n","v","i","r","o","n","m","e","n","t">>,
     <<>> >>,
  << <<"A","C","F","S","0","1">>,
     <<"W","a","r","n","i","n","g",","," ","A","l","a","r","m">>,
     <<"F","a","i","l"," ","S","a","f","e"," ","S","t","a","t","e">>,
     <<>> >>,
  << <<"P","O","W","R","E","Q">>,
     <<"2","4"," ","V","D","C">>,
     <<"P","o","w","e","r"," ","R","e","q","u","i","r","e","m","e","n","t">>,
     <<"V">> >>,
  << <<"T","E","M","P","0","1">>,
     <<"-","4","0"," ","t","o"," ","+","7","5">>,
     <<"O","p","e","r","a","t","i","n","g"," ","T","e","m","p","e","r","a","t","u","r","e">>,
     <<"DEG","C">> >>,
  << <<"C","E","R","T","I","F">>,
     <<"A","T","E","X",","," ","I","E","C","E","x">>,
     <<"C","e","r","t","i","f","i","c","a","t","i","o","n">>,
     <<>> >>,
  << <<"M","F","G","R">>,
     <<"T","Y","C","O">>,
     <<"M","a","n","u","f","a","c","t","u","r","e","r">>,
     <<>> >>,
  << <<"M","O","D","E","L">>,
     <<"H","2","S"," ","G","a","s"," ","D","e","t","e","c","t","o","r">>,
     <<"M","o","d","e","l","/","T","y","p","e">>,
     <<>> >>,
  << <<"C","O","N","N","0","1">>,
     <<"M","2","0"," ","x"," ","1",".","5">>,
     <<"C","o","n","n","e","c","t","i","o","n">>,
     <<>> >>,
  << <<"H","O","U","S","I","N","G">>,
     <<"E","x","p","l","o","s","i","o","n"," ","P","r","o","o","f">>,
     <<"H","o","u","s","i","n","g"," ","T","y","p","e">>,
     <<>> >>,
  << <<"D","I","S","P","L","A","Y">>,
     <<"L","C","D">>,
     <<"D","i","s","p","l","a","y"," ","T","y","p","e">>,
     <<>> >>,
  << <<"A","L","A","R","M">>,
     <<"V","i","s","u","a","l"," ","&"," ","A","u","d","i","b","l","e">>,
     <<"A","l","a","r","m"," ","T","y","p","e">>,
     <<>> >>
 >>

sample_attributes ==
 <<
  << <<"N","A","C","C","0","1">>,
     <<"PLUSMINUS","5">>,
     <<"A","c","c","u","r","a","c","y">>,
     <<"%">> >>,
  << <<"H","S","E","-","H","A","Z","_","A","R","E","A">>,
     <<"Z","o","n","e"," ","1">>,
     <<"A","r","e","a"," ","C","l","a","s","s","i","f","i","c","a","t","i","o","n">>,
     <<>> >>,
  << <<"C","A","L","R","0","1">>,
     <<"0","ENDASH","1","0","0">>,
     <<"C","a","l","i","b","r","a","t","e","d"," ","R","a","n","g","e">>,
     <<"p","p","m">> >>,
  << <<"D","E","T","C","O","M","M">>,
     <<"M","o","d","b","u","s"," ","R","T","U">>,
     <<"D","e","t","e","c","t","o","r"," ","C","o","m","m","u","n","i","c","a","t","i","o","n">>,
     <<>> >>,
  << <<"E","N","V","I","R","O","N","T">>,
     <<"I","P","6","5">>,
     <<"E","n","v","i","r","o","n","m","e","n","t"," ","R","a","t","i","n","g">>,
     <<>> >>,
  << <<"A","C","F","S","0","1">>,
     <<"F","a","i","l"," ","t","o"," ","S","a","f","e">>,
     <<"F","a","i","l"," ","S","a","f","e"," ","S","t","a","t","e">>,
     <<>> >>,
  << <<"P","O","W","R","E","Q">>,
     <<"1","2","-","3","0"," ","V","D","C">>,
     <<"P","o","w","e","r"," ","R","e","q","u","i","r","e","m","e","n","t">>,
     <<"V">> >>,
  << <<"T","E","M","P","0","1">>,
     <<"-","2","0"," ","t","o"," ","+","6","0">>,
     <<"O","p","e","r","a","t","i","n","g"," ","T","e","m","p","e","r","a","t","u","r","e">>,
     <<"DEG","C">> >>,
  << <<"C","E","R","T","I","F">>,
     <<"A","T","E","X"," ","Z","o","n","e"," ","1">>,
     <<"C","e","r","t","i","f","i","c","a","t","i","o","n">>,
     <<>> >>,
  << <<"M","F","G","R">>,
     <<"H","o","n","e","y","w","e","l","l">>,
     <<"M","a","n","u","f","a","c","t","u","r","e","r">>,
     <<>> >>,
  << <<"M","O","D","E","L">>,
     <<"G","a","s"," ","M","o","n","i","t","o","r">>,
     <<"M","o","d","e","l","/","T","y","p","e">>,
     <<>> >>,
  << <<"C","O","N","N","0","1">>,
     <<"1","/","2"," ","N","P","T">>,
     <<"C","o","n","n","e","c","t","i","o","n">>,
     <<>> >>,
  << <<"H","O","U","S","I","N","G">>,
     <<"W","e","a","t","h","e","r","p","r","o","o","f">>,
     <<"H","o","u","s","i","n","g"," ","T","y","p","e">>,
     <<>> >>,
  << <<"D","I","S","P","L","A","Y">>,
     <<"L","E","D"," ","I","n","d","i","c","a","t","o","r","s">>,
     <<"D","i","s","p","l","a","y"," ","T","y","p","e">>,
     <<>> >>,
  << <<"A","L","A","R","M">>,
     <<"R","e","l","a","y"," ","O","u","t","p","u","t">>,
     <<"A","l","a","r","m"," ","T","y","p","e">>,
     <<>> >>
 >>

skip_patterns ==
 <<<<"S","h","e","e","t">>,
   <<"P","E","T","R","O","L","E","U","M">>,
   <<"C","O","N","T","R","A","C","T">>,
   <<"T","R","A","N","S">>,
   <<"P","r","e","v","i","o","u","s">>,
   <<"L","i","s","t"," ","o","f"," ","A","t","t","a","c","h","m","e","n","t","s">>,
   <<"P","r","o","j","e","c","t"," ","M","a","n","a","g","e","r">>,
   <<"f","i","l","e",":","/","/">>,
   <<"T","e","r","m","s",":">>,
   <<"F",".","O",".","B",".">>,
   <<"P","r","i","c","e","s"," ","s","u","b","j","e","c","t">>,
   <<"C","O","N","F","I","D","E","N","T","I","A","L">>>>
scan_keywords ==
 <<<<"P","P","M">>,
   <<"M","A">>,
   <<"V","D","C">>,
   <<"T","E","M","P">>,
   <<"P","R","E","S","S","U","R","E">>,
   <<"R","A","N","G","E">>,
   <<"A","L","A","R","M">>,
   <<"A","C","C","U","R","A","C","Y">>,
   <<"D","E","T","E","C","T","O","R">>,
   <<"G","A","S">>,
   <<"H","2","S">>,
   <<"A","T","E","X">>,
   <<"I","E","C","E","X">>>>
unit_vocabulary ==
 <<<<"p","p","m">>,
   <<"m","A">>,
   <<"V","D","C">>,
   <<"DEG","C">>,
   <<"%">>,
   <<"b","a","r">>,
   <<"p","s","i">>>>

Row(functional_location, position_counter, attr_name, attr_value, description, uom, ref) ==
  << functional_location, ClassNumber, ClassType, position_counter, attr_name,
     attr_value, description, uom, <<>>, <<>>, ref >>

SkipModulus == 3

\* a skip of every attribute without a value
SkipAttribute_everyempty(attr_value, position_counter) == attr_value = <<>>

\* `if not attr_value and position_counter % 3 == 0: continue`
SkipAttribute(attr_value, position_counter) ==
  attr_value = <<>> /\ position_counter % SkipModulus = 0

\* a template step that appends its row without advancing position_counter
TemplateStep_noincrement(a, st, functional_location, ref) ==
  IF SkipAttribute(a[2], st.position_counter) THEN st
  ELSE [rows |-> Append(st.rows,
                        Row(functional_location, st.position_counter,
                            a[1], a[2], a[3], a[4], ref)),
        position_counter |-> st.position_counter]

\* one iteration of the template loop on st = [rows, position_counter]
TemplateStep(a, st, functional_location, ref) ==
  IF SkipAttribute(a[2], st.position_counter) THEN st
  ELSE [rows |-> Append(st.rows,
                        Row(functional_location, st.position_counter,
                            a[1], a[2], a[3], a[4], ref)),
        position_counter |-> st.position_counter + 1]

\* the template loop from entry k on
RECURSIVE TemplateLoop(_, _, _, _, _)
TemplateLoop(attrs, k, st, functional_location, ref) ==
  IF k > Len(attrs) THEN st
  ELSE WithValue(TemplateStep(attrs[k], st, functional_location, ref), LAMBDA next :
         TemplateLoop(attrs, k + 1, next, functional_location, ref))

HasDigit(part) == \E i \in 1..Len(part) : IsDigit(part[i])

DescriptionLen == 50

\* uom: the first unit of the vocabulary whose lower case occurs in line.lower()
UnitOf(line) ==
  WithValue(Lower(line), LAMBDA lower :
    LET Occurs(unit) == Contains(lower, Lower(unit))
    IN  WithValue(FirstFrom(unit_vocabulary, 1, Occurs), LAMBDA u :
          IF u > Len(unit_vocabulary) THEN <<>> ELSE unit_vocabulary[u]))

\* `any(pattern in line for pattern in skip_patterns)`
Skipped(line) == \E p \in DOMAIN skip_patterns : Contains(line, skip_patterns[p])

\* the keyword test on the line as written, without upper()
HasKeyword_casesensitive(line) ==
  \E w \in DOMAIN scan_keywords : Contains(line, scan_keywords[w])

\* `any(keyword in line.upper() for keyword in [...])`
HasKeyword(line) ==
  WithValue(Upper(line), LAMBDA upper :
    \E w \in DOMAIN scan_keywords : Contains(upper, scan_keywords[w]))

\* the body of the line loop with the location looked up again in the line
\* the row comes from
ScanLine_relocate(line, position_counter, functional_location, ref) ==
  IF Skipped(line) THEN <<>>
  ELSE IF ~HasKeyword(line) THEN <<>>
  ELSE WithValue(SplitWords(line), LAMBDA parts :
         WithValue(FirstFrom(parts, 1, HasDigit), LAMBDA i :
           IF i > Len(parts) THEN <<>>
           ELSE WithValue(Join(SubSeq(parts, Max({1, i - 2}), Min({Len(parts), i + 2})),
                               " "),
                          LAMBDA full :
                  << Row(IF LocationInLine(line).assigned
                           THEN LocationInLine(line).value ELSE functional_location,
                         position_counter,
                         <<"S","P","E","C">> \o Pad02d(position_counter),
                         parts[i],
                         Strip(SubSeq(full, 1, Min({Len(full), DescriptionLen}))),
                         UnitOf(line), ref) >>)))

\* the body of the line loop: the rows (none or one) a line adds at position_counter
ScanLine(line, position_counter, functional_location, ref) ==
  IF Skipped(line) THEN <<>>
  ELSE IF ~HasKeyword(line) THEN <<>>
  ELSE WithValue(SplitWords(line), LAMBDA parts :
         WithValue(FirstFrom(parts, 1, HasDigit), LAMBDA i :
           IF i > Len(parts) THEN <<>>
           ELSE WithValue(Join(SubSeq(parts, Max({1, i - 2}), Min({Len(parts), i + 2})),
                               " "),
                          LAMBDA full :
                  << Row(functional_location, position_counter,
                         <<"S","P","E","C">> \o Pad02d(position_counter),
                         parts[i],
                         Strip(SubSeq(full, 1, Min({Len(full), DescriptionLen}))),
                         UnitOf(line), ref) >>)))

\* the line loop from line k on; st = [rows, position_counter]
RECURSIVE ScanLoop(_, _, _, _, _)
ScanLoop(lines, k, st, functional_location, ref) ==
  IF k > Len(lines) THEN st
  ELSE WithValue(ScanLine(lines[k], st.position_counter, functional_location, ref),
                 LAMBDA new :
         ScanLoop(lines, k + 1,
                  [rows |-> st.rows \o new,
                   position_counter |-> st.position_counter + Len(new)],
                  functional_location, ref))

\* structuring without the template phase: only the rows of the line scan
format_text_to_structure_notemplate(t, pdf_name) ==
  IF Strip(t) = <<>> THEN <<>>
  ELSE WithValue(TextLines(t), LAMBDA lines :
         WithValue(FullDocRef(lines, pdf_name), LAMBDA full_doc_ref :
           WithValue(FunctionalLocation(lines), LAMBDA functional_location :
             ScanLoop(lines, 1, [rows |-> <<>>, position_counter |-> 1],
                      functional_location, full_doc_ref).rows)))

format_text_to_structure(t, pdf_name) ==
  IF Strip(t) = <<>> THEN <<>>
  ELSE WithValue(TextLines(t), LAMBDA lines :
         WithValue(FullDocRef(lines, pdf_name), LAMBDA full_doc_ref :
           WithValue(FunctionalLocation(lines), LAMBDA functional_location :
             WithValue(TemplateLoop(equipment_attributes, 1,
                                    [rows |-> <<>>, position_counter |-> 1],
                                    functional_location, full_doc_ref),
                       LAMBDA st :
               ScanLoop(lines, 1, st, functional_location, full_doc_ref).rows))))

\* the loop of _generate_sample_attributes from entry k on
RECURSIVE SampleLoop(_, _, _)
SampleLoop(k, rows, doc_ref) ==
  IF k > Len(sample_attributes) THEN rows
  ELSE LET a == sample_attributes[k]
       IN  SampleLoop(k + 1,
                      Append(rows, Row(SampleLocation, k, a[1], a[2], a[3], a[4], doc_ref)),
                      doc_ref)

\* a sample generator that returns no rows
_generate_sample_attributes_empty(pdf_name) == <<>>

_generate_sample_attributes(pdf_name) == SampleLoop(1, <<>>, NameDocRef(pdf_name))

----------------------------------------------------------------------------
(* The documents the entry points are run on                               *)

TextGood ==
  <<"H","2","S"," ","G","a","s"," ","D","e","t","e","c","t","o","r"," ","D","a","t","a"," ","S","h","e","e","t","\n">>
  \o <<"C","a","l","i","b","r","a","t","e","d"," ","R","a","n","g","e"," ","0","-","5","0"," ","p","p","m","\n">>
  \o <<"P","o","w","e","r"," ","s","u","p","p","l","y"," ","2","4"," ","V","D","C"," ","n","o","m","i","n","a","l","\n">>
  \o <<"I","n","s","t","a","l","l","e","d"," ","a","t"," ","p","r","o","c","e","s","s"," ","u","n","i","t"," ","n","o","r","t","h","\n">>
  \o <<"S","h","e","e","t"," ","1"," ","o","f"," ","2","\n">>

TextMid ==
  <<"O","p","e","r","a","t","i","n","g"," ","p","r","e","s","s","u","r","e"," ","1","0"," ","b","a","r","\n">>
  \o <<"m","e","a","s","u","r","e","d"," ","a","t"," ","t","h","e"," ","i","n","l","e","t"," ","f","l","a","n","g","e"," ","o","f"," ","t","h","e"," ","v","e","s","s","e","l">>

\* 40 characters
Text40 == <<"G","a","s"," ","5"," ">> \o Rep("a", 34)

\* 120 characters, 6 of them alphabetic
TextGarbled == <<"R","a","n","g","e"," ">> \o Rep("7", 114)

\* a page image whose recognized text has n characters once trimmed
OcrText(n) == <<" ">> \o Rep("c", n) \o <<"\n">>

Page(direct, primary, alt) == [direct |-> direct, primary |-> primary, alt |-> alt]

Document(path, exists, pages) ==
  [path |-> path, exists |-> exists, openFails |-> FALSE, rasterFails |-> FALSE,
   structureRaises |-> FALSE, sampleRaises |-> FALSE, pages |-> pages]

ShortDoc(n) ==
  Document(<<"d","o","c","-","a",".","p","d","f">>, TRUE,
           << Page(Returns(Text40), Returns(OcrText(n)), Returns(<<>>)) >>)

GoodDoc ==
  Document(<<"s","a","m","p","l","e","_","d","a","t","a","/","P","1","1","5","6","9","-","1","1","-","9","9","-","4","0","-","2","6","1","9",".","p","d","f">>,
           TRUE, << Page(Returns(TextGood), Returns(OcrText(45)), Returns(<<>>)) >>)

Catalog == {"good", "mid", "short45", "short60", "short61", "garbled",
            "scanned", "blank", "void", "missing", "raising", "doomed", "twin"}

DocOf(id) ==
  CASE id = "good" -> GoodDoc
    [] id = "mid" ->
         Document(<<"d","o","c","-","b",".","p","d","f">>, TRUE,
                  << Page(Returns(TextMid), Returns(OcrText(102)), Returns(<<>>)) >>)
    [] id = "short45" -> ShortDoc(45)
    [] id = "short60" -> ShortDoc(60)
    [] id = "short61" -> ShortDoc(61)
    [] id = "garbled" ->
         [Document(<<"g","a","r","b","l","e","d",".","p","d","f">>, TRUE,
                   << Page(Returns(TextGarbled), Returns(OcrText(200)), Returns(<<>>)) >>)
            EXCEPT !.rasterFails = TRUE]
    [] id = "scanned" ->
         Document(<<"s","c","a","n","-","1",".","2",".","3",".","4",".","p","d","f">>, TRUE,
                  << Page(Raises, Returns(<<" ">>), Returns(OcrText(30))),
                     Page(Returns(<<" ","\n">>), Returns(TextMid), Returns(<<>>)) >>)
    [] id = "blank" ->
         Document(<<"b","l","a","n","k",".","p","d","f">>, TRUE,
                  << Page(Returns(<<>>), Returns(<<"\n">>), Returns(<<>>)) >>)
    [] id = "void" ->
         [Document(<<"v","o","i","d",".","p","d","f">>, TRUE,
                   << Page(Returns(<<>>), Returns(<<>>), Returns(<<" ">>)) >>)
            EXCEPT !.sampleRaises = TRUE]
    [] id = "missing" ->
         Document(<<"m","i","s","s","i","n","g",".","p","d","f">>, FALSE, <<>>)
    [] id = "raising" -> [GoodDoc EXCEPT !.structureRaises = TRUE]
    [] id = "doomed" -> [GoodDoc EXCEPT !.structureRaises = TRUE, !.sampleRaises = TRUE]
    [] id = "twin" ->
         Document(<<"s","a","m","p","l","e","_","d","a","t","a","/","P","1","1","5","6","9","-","1","1","-","9","9","-","4","0","-","2","6","2","0",".","p","d","f">>,
                  TRUE, << Page(Returns(TextMid), Returns(OcrText(45)), Returns(<<>>)) >>)

\* the catalog, evaluated once
Docs == [id \in Catalog |-> DocOf(id)]

Doc(id) == Docs[id]

MaxDocs == 2

\* sequences over S of length at most n
RECURSIVE SeqsUpTo(_, _)
SeqsUpTo(S, n) ==
  IF n = 0 THEN {<<>>}
  ELSE LET shorter == SeqsUpTo(S, n - 1)
       IN  shorter \cup {Append(q, x) : q \in {r \in shorter : Len(r) = n - 1}, x \in S}

----------------------------------------------------------------------------
(* Processing Strategy Selector and the two entry points                   *)

SingleThreshold == 50

MultiThreshold == 100

\* the comparison with ">=" in place of ">"
OcrImproves_ge(ocr, direct) == 2 * Len(Strip(ocr)) >= 3 * Len(Strip(direct))

\* `len(ocr_text.strip()) > len(text.strip()) * 1.5` (exact in floating point)
OcrImproves(ocr, direct) == 2 * Len(Strip(ocr)) > 3 * Len(Strip(direct))

\* the sufficiency check without the "not" before the classifier
GoodExtraction_nonot(t, threshold) ==
  Len(Strip(t)) > threshold /\ _is_low_quality_extraction(t)

\* `len(text.strip()) > threshold and not self._is_low_quality_extraction(text)`
GoodExtraction(t, threshold) ==
  Len(Strip(t)) > threshold /\ ~_is_low_quality_extraction(t)

CurDoc == Doc(pdf_paths[idx])

pdf_name == Stem(CurDoc.path)

Called(kind) == calls' = Append(calls, <<idx, kind>>)

Init ==
  /\ entry \in {"single", "multi"}
  /\ use_ocr \in BOOLEAN
  /\ pdf_paths \in IF entry = "single" THEN {<<d>> : d \in Catalog}
                   ELSE SeqsUpTo(Catalog, MaxDocs)
  /\ idx = 1
  /\ pc = "start"
  /\ text = <<>>
  /\ ocr_text = <<>>
  /\ processing_method = "unset"
  /\ structured_data = <<>>
  /\ all_structured_data = <<>>
  /\ processing_summary = <<>>
  /\ excel = <<>>
  /\ outcome = "running"
  /\ calls = <<>>
  /\ probe = <<>>

(* process_pdf_to_excel *)

S_NotFound ==
  /\ entry = "single" /\ pc = "start" /\ ~CurDoc.exists
  /\ outcome' = "FileNotFoundError"
  /\ pc' = "done"
  /\ UNCHANGED << entry, use_ocr, pdf_paths, idx, text, ocr_text, processing_method,
                  structured_data, all_structured_data, processing_summary, excel,
                  calls, probe >>

\* forced OCR that falls back to direct extraction when OCR yields nothing
S_ForcedOcr_directfallback ==
  /\ entry = "single" /\ pc = "start" /\ CurDoc.exists /\ use_ocr
  /\ \E ocr \in {ocr_pdf(CurDoc)} :
       IF Strip(ocr) # <<>>
         THEN text' = ocr /\ Called("ocr")
         ELSE /\ text' = extract_text_from_pdf(CurDoc)
              /\ calls' = calls \o << <<idx, "ocr">>, <<idx, "extract">> >>
  /\ pc' = "selected"
  /\ UNCHANGED << entry, use_ocr, pdf_paths, idx, ocr_text, processing_method,
                  structured_data, all_structured_data, processing_summary, excel,
                  outcome, probe >>

S_ForcedOcr ==
  /\ entry = "single" /\ pc = "start" /\ CurDoc.exists /\ use_ocr
  /\ text' = ocr_pdf(CurDoc)
  /\ Called("ocr")
  /\ pc' = "selected"
  /\ UNCHANGED << entry, use_ocr, pdf_paths, idx, ocr_text, processing_method,
                  structured_data, all_structured_data, processing_summary, excel,
                  outcome, probe >>

S_Extract ==
  /\ entry = "single" /\ pc = "start" /\ CurDoc.exists /\ ~use_ocr
  /\ text' = extract_text_from_pdf(CurDoc)
  /\ Called("extract")
  /\ pc' = "extracted"
  /\ UNCHANGED << entry, use_ocr, pdf_paths, idx, ocr_text, processing_method,
                  structured_data, all_structured_data, processing_summary, excel,
                  outcome, probe >>

S_GoodText ==
  /\ entry = "single" /\ pc = "extracted"
  /\ Strip(text) # <<>> /\ GoodExtraction(text, SingleThreshold)
  /\ pc' = "selected"
  /\ UNCHANGED << entry, use_ocr, pdf_paths, idx, text, ocr_text, processing_method,
                  structured_data, all_structured_data, processing_summary, excel,
                  outcome, calls, probe >>

S_OcrLowQuality ==
  /\ entry = "single" /\ pc = "extracted"
  /\ Strip(text) # <<>> /\ ~GoodExtraction(text, SingleThreshold)
  /\ ocr_text' = ocr_pdf(CurDoc)
  /\ Called("ocr")
  /\ text' = IF Strip(ocr_text') # <<>> /\ OcrImproves(ocr_text', text)
               THEN ocr_text' ELSE text
  /\ pc' = "selected"
  /\ UNCHANGED << entry, use_ocr, pdf_paths, idx, processing_method,
                  structured_data, all_structured_data, processing_summary, excel,
                  outcome, probe >>

S_OcrNoText ==
  /\ entry = "single" /\ pc = "extracted" /\ Strip(text) = <<>>
  /\ text' = ocr_pdf(CurDoc)
  /\ Called("ocr")
  /\ pc' = "selected"
  /\ UNCHANGED << entry, use_ocr, pdf_paths, idx, ocr_text, processing_method,
                  structured_data, all_structured_data, processing_summary, excel,
                  outcome, probe >>

\* the no-text failure that still leaves a workbook without rows behind
S_NoText_writeempty ==
  /\ entry = "single" /\ pc = "selected" /\ Strip(text) = <<>>
  /\ excel' = Append(excel, <<>>)
  /\ outcome' = "ValueError: No text could be extracted"
  /\ pc' = "done"
  /\ UNCHANGED << entry, use_ocr, pdf_paths, idx, text, ocr_text, processing_method,
                  structured_data, all_structured_data, processing_summary,
                  calls, probe >>

S_NoText ==
  /\ entry = "single" /\ pc = "selected" /\ Strip(text) = <<>>
  /\ outcome' = "ValueError: No text could be extracted"
  /\ pc' = "done"
  /\ UNCHANGED << entry, use_ocr, pdf_paths, idx, text, ocr_text, processing_method,
                  structured_data, all_structured_data, processing_summary, excel,
                  calls, probe >>

\* lines 623-631: structure, fall back to the sample table, fail if still empty.
\* An exception raised by format_text_to_structure or by
\* _generate_sample_attributes leaves the entry point.
S_Structure ==
  /\ entry = "single" /\ pc = "selected" /\ Strip(text) # <<>>
  /\ \E structured \in {format_text_to_structure(text, pdf_name)} :
     \E data \in {IF structured = <<>> THEN _generate_sample_attributes(pdf_name)
                  ELSE structured} :
       IF CurDoc.structureRaises \/ (structured = <<>> /\ CurDoc.sampleRaises)
         THEN /\ outcome' = "Exception"
              /\ pc' = "done"
              /\ UNCHANGED structured_data
       ELSE IF data = <<>>
         THEN /\ outcome' = "ValueError: No data could be structured"
              /\ pc' = "done"
              /\ structured_data' = data
       ELSE /\ structured_data' = data
            /\ pc' = "write"
            /\ UNCHANGED outcome
  /\ UNCHANGED << entry, use_ocr, pdf_paths, idx, text, ocr_text, processing_method,
                  all_structured_data, processing_summary, excel, calls, probe >>

S_Write ==
  /\ entry = "single" /\ pc = "write"
  /\ excel' = Append(excel, structured_data)
  /\ outcome' = "returned"
  /\ pc' = "done"
  /\ UNCHANGED << entry, use_ocr, pdf_paths, idx, text, ocr_text, processing_method,
                  structured_data, all_structured_data, processing_summary,
                  calls, probe >>

(* process_multiple_pdfs_to_excel *)

Summary(status, method, rows, text_length) ==
  [file |-> pdf_name, status |-> status, method |-> method,
   rows |-> rows, text_length |-> text_length]

\* the end of one iteration of the loop over pdf_paths
NextDocument == idx' = idx + 1 /\ pc' = "start"

InLoop == entry = "multi" /\ idx <= Len(pdf_paths)

\* a missing file that is recorded in the summary
M_NotFound_recorded ==
  /\ InLoop /\ pc = "start" /\ ~CurDoc.exists
  /\ idx' = idx + 1
  /\ processing_summary' = Append(processing_summary, Summary("not_found", "none", 0, 0))
  /\ UNCHANGED << entry, use_ocr, pdf_paths, pc, text, ocr_text, processing_method,
                  structured_data, all_structured_data, excel, outcome, calls, probe >>

M_NotFound ==
  /\ InLoop /\ pc = "start" /\ ~CurDoc.exists
  /\ idx' = idx + 1
  /\ UNCHANGED << entry, use_ocr, pdf_paths, pc, text, ocr_text, processing_method,
                  structured_data, all_structured_data, processing_summary, excel,
                  outcome, calls, probe >>

M_ForcedOcr ==
  /\ InLoop /\ pc = "start" /\ CurDoc.exists /\ use_ocr
  /\ text' = ocr_pdf(CurDoc)
  /\ Called("ocr")
  /\ processing_method' = "forced_ocr"
  /\ pc' = "selected"
  /\ UNCHANGED << entry, use_ocr, pdf_paths, idx, ocr_text, structured_data,
                  all_structured_data, processing_summary, excel, outcome, probe >>

M_Extract ==
  /\ InLoop /\ pc = "start" /\ CurDoc.exists /\ ~use_ocr
  /\ text' = extract_text_from_pdf(CurDoc)
  /\ Called("extract")
  /\ processing_method' = "unknown"
  /\ pc' = "extracted"
  /\ UNCHANGED << entry, use_ocr, pdf_paths, idx, ocr_text, structured_data,
                  all_structured_data, processing_summary, excel, outcome, probe >>

M_GoodText ==
  /\ InLoop /\ pc = "extracted"
  /\ Strip(text) # <<>> /\ GoodExtraction(text, MultiThreshold)
  /\ processing_method' = "text_extraction"
  /\ pc' = "selected"
  /\ UNCHANGED << entry, use_ocr, pdf_paths, idx, text, ocr_text, structured_data,
                  all_structured_data, processing_summary, excel, outcome, calls,
                  probe >>

\* the OCR branch with direct extraction tried once more when OCR yields nothing
M_Ocr_reextract ==
  /\ InLoop /\ pc = "extracted"
  /\ ~(Strip(text) # <<>> /\ GoodExtraction(text, MultiThreshold))
  /\ ocr_text' = ocr_pdf(CurDoc)
  /\ IF Strip(ocr_text') # <<>>
       THEN /\ Called("ocr")
            /\ IF Strip(text) = <<>> \/ OcrImproves(ocr_text', text)
                 THEN text' = ocr_text' /\ processing_method' = "ocr_fallback"
                 ELSE text' = text /\ processing_method' = "text_extraction"
       ELSE /\ calls' = calls \o << <<idx, "ocr">>, <<idx, "extract">> >>
            /\ text' = extract_text_from_pdf(CurDoc)
            /\ processing_method' = "failed"
  /\ pc' = "selected"
  /\ UNCHANGED << entry, use_ocr, pdf_paths, idx, structured_data,
                  all_structured_data, processing_summary, excel, outcome, probe >>

M_Ocr ==
  /\ InLoop /\ pc = "extracted"
  /\ ~(Strip(text) # <<>> /\ GoodExtraction(text, MultiThreshold))
  /\ ocr_text' = ocr_pdf(CurDoc)
  /\ Called("ocr")
  /\ IF Strip(ocr_text') # <<>>
       THEN IF Strip(text) = <<>> \/ OcrImproves(ocr_text', text)
              THEN text' = ocr_text' /\ processing_method' = "ocr_fallback"
              ELSE text' = text /\ processing_method' = "text_extraction"
       ELSE text' = text /\ processing_method' = "failed"
  /\ pc' = "selected"
  /\ UNCHANGED << entry, use_ocr, pdf_paths, idx, structured_data,
                  all_structured_data, processing_summary, excel, outcome, probe >>

\* a fallback that records its summary entry but does not extend
\* all_structured_data
SampleFallback_norows(status) ==
  IF CurDoc.sampleRaises
    THEN /\ pc' = "except"
         /\ UNCHANGED << idx, structured_data, all_structured_data, processing_summary >>
    ELSE \E sample \in {_generate_sample_attributes(pdf_name)} :
           /\ structured_data' = sample
           /\ processing_summary' =
                Append(processing_summary, Summary(status, "fallback", Len(sample), 0))
           /\ UNCHANGED all_structured_data
           /\ NextDocument

\* lines 711-721 and 725-735: `structured_data = self._generate_sample_attributes
\* (pdf_name)` inside the try block, and the summary entry if it is not empty
SampleFallback(status) ==
  IF CurDoc.sampleRaises
    THEN /\ pc' = "except"
         /\ UNCHANGED << idx, structured_data, all_structured_data, processing_summary >>
    ELSE \E sample \in {_generate_sample_attributes(pdf_name)} :
           /\ structured_data' = sample
           /\ IF sample # <<>>
                THEN /\ all_structured_data' = all_structured_data \o sample
                     /\ processing_summary' =
                          Append(processing_summary,
                                 Summary(status, "fallback", Len(sample), 0))
                ELSE UNCHANGED << all_structured_data, processing_summary >>
           /\ NextDocument

\* lines 695-721: the text is not blank. An exception inside the try block
\* (format_text_to_structure or _generate_sample_attributes raising) goes to
\* the except clause.
M_Structure ==
  /\ InLoop /\ pc = "selected" /\ Strip(text) # <<>>
  /\ \E structured \in {format_text_to_structure(text, pdf_name)} :
       IF CurDoc.structureRaises
         THEN /\ pc' = "except"
              /\ UNCHANGED << idx, structured_data, all_structured_data,
                              processing_summary >>
       ELSE IF structured # <<>>
         THEN /\ structured_data' = structured
              /\ all_structured_data' = all_structured_data \o structured
              /\ processing_summary' =
                   Append(processing_summary,
                          Summary("success", processing_method, Len(structured),
                                  Len(Strip(text))))
              /\ NextDocument
       ELSE SampleFallback("sample_data")
  /\ UNCHANGED << entry, use_ocr, pdf_paths, text, ocr_text, processing_method,
                  excel, outcome, calls, probe >>

\* lines 722-735: the text is blank
M_CompleteFailure ==
  /\ InLoop /\ pc = "selected" /\ Strip(text) = <<>>
  /\ SampleFallback("failed_with_sample")
  /\ UNCHANGED << entry, use_ocr, pdf_paths, text, ocr_text, processing_method,
                  excel, outcome, calls, probe >>

\* an except clause that lets the exception leave the loop
M_Except_abort ==
  /\ InLoop /\ pc = "except"
  /\ outcome' = "Exception"
  /\ pc' = "done"
  /\ UNCHANGED << entry, use_ocr, pdf_paths, idx, text, ocr_text, processing_method,
                  structured_data, all_structured_data, processing_summary, excel,
                  calls, probe >>

\* lines 737-762: the except clause
M_Except ==
  /\ InLoop /\ pc = "except"
  /\ IF CurDoc.sampleRaises
       THEN /\ processing_summary' =
                 Append(processing_summary,
                        Summary("complete_failure", "none", 0, 0)
                          @@ [error |-> "Exception"])
            /\ UNCHANGED << structured_data, all_structured_data >>
       ELSE \E sample \in {_generate_sample_attributes(pdf_name)} :
              /\ structured_data' = sample
              /\ IF sample # <<>>
                   THEN /\ all_structured_data' = all_structured_data \o sample
                        /\ processing_summary' =
                             Append(processing_summary,
                                    Summary("error_with_sample", "fallback",
                                            Len(sample), 0) @@ [error |-> "Exception"])
                   ELSE UNCHANGED << all_structured_data, processing_summary >>
  /\ NextDocument
  /\ UNCHANGED << entry, use_ocr, pdf_paths, text, ocr_text, processing_method,
                  excel, outcome, calls, probe >>

\* an end of the loop that writes whatever was accumulated
M_Finish_alwayswrite ==
  /\ entry = "multi" /\ pc = "start" /\ idx > Len(pdf_paths)
  /\ excel' = Append(excel, all_structured_data)
  /\ outcome' = "returned"
  /\ pc' = "done"
  /\ UNCHANGED << entry, use_ocr, pdf_paths, idx, text, ocr_text, processing_method,
                  structured_data, all_structured_data, processing_summary,
                  calls, probe >>

\* lines 764-768 and 793: after the loop
M_Finish ==
  /\ entry = "multi" /\ pc = "start" /\ idx > Len(pdf_paths)
  /\ IF all_structured_data = <<>>
       THEN /\ outcome' = "ValueError: No structured data could be created from any PDF"
            /\ UNCHANGED excel
       ELSE /\ excel' = Append(excel, all_structured_data)
            /\ outcome' = "returned"
  /\ pc' = "done"
  /\ UNCHANGED << entry, use_ocr, pdf_paths, idx, text, ocr_text, processing_method,
                  structured_data, all_structured_data, processing_summary,
                  calls, probe >>

Next ==
  \/ S_NotFound \/ S_ForcedOcr \/ S_Extract \/ S_GoodText \/ S_OcrLowQuality
  \/ S_OcrNoText \/ S_NoText \/ S_Structure \/ S_Write
  \/ M_NotFound \/ M_ForcedOcr \/ M_Extract \/ M_GoodText \/ M_Ocr
  \/ M_Structure \/ M_CompleteFailure \/ M_Except \/ M_Finish

Spec == Init /\ [][Next]_vars

----------------------------------------------------------------------------
(* The Extraction Quality Classifier on its own                            *)

\* what the variables of the entry points hold while one function is applied
Idle ==
  /\ use_ocr = FALSE
  /\ pdf_paths = <<>>
  /\ idx = 1
  /\ pc = "start"
  /\ text = <<>>
  /\ ocr_text = <<>>
  /\ processing_method = "unset"
  /\ structured_data = <<>>
  /\ all_structured_data = <<>>
  /\ processing_summary = <<>>
  /\ excel = <<>>
  /\ outcome = "running"
  /\ calls = <<>>

IdleUnchanged ==
  UNCHANGED << entry, use_ocr, pdf_paths, idx, pc, text, ocr_text, processing_method,
               structured_data, all_structured_data, processing_summary, excel,
               outcome, calls >>

PadMax == 3

GarbleChars == <<"UFFFD", "\\", "|">>

\* a text of `lead` blanks, `alpha` letters, `digit` digits, `garble` garble
\* characters (the three kinds in turn) and `trail` blanks
QualityText(q) ==
  Rep(" ", q.lead) \o Rep("a", q.alpha) \o Rep("7", q.digit)
    \o [i \in 1..q.garble |-> GarbleChars[(i % 3) + 1]] \o Rep(" ", q.trail)

QualityInputs ==
  [lead : {0, PadMax}, alpha : {0, 10, 29, 30, 31, 49, 50, 800},
   digit : {0, 20, 70, 200}, garble : {0, 1, 5, 6}, trail : {0, PadMax}]

QualityInit ==
  /\ entry = "quality"
  /\ Idle
  /\ probe \in {[input |-> q, done |-> FALSE, low_quality |-> FALSE] : q \in QualityInputs}

Q_Classify ==
  /\ entry = "quality" /\ ~probe.done
  /\ probe' = [probe EXCEPT !.done = TRUE,
                            !.low_quality = _is_low_quality_extraction(QualityText(probe.input))]
  /\ IdleUnchanged

SpecQuality == QualityInit /\ [][Q_Classify]_vars

----------------------------------------------------------------------------
(* The Structuring Engine on its own                                       *)

LineVocabulary ==
  << <<"R","a","n","g","e"," ","0","-","5","0"," ","p","p","m">>,
     <<"S","h","e","e","t"," ","1"," ","o","f"," ","2"," ","p","p","m">>,
     <<"A","l","a","r","m"," ","l","e","v","e","l"," ","h","i","g","h">>,
     <<"T","a","g"," ","1","1","-","1","8","-","A","B","C","D","-","1","2","3","4"," ","x">>,
     <<" "," ","D","o","c"," ","7","-","8",".","9","-","1","0"," ","r","e","v"," ">>,
     <<" "," "," ">>,
     <<"Z","Z","-","1","2","3","4","5","6","7","8","9"," ","g","a","s"," ","4">>,
     <<"R","e","f"," ","P","1",".","2",".","3",".","4"," ","r","e","v">> >>

NameVocabulary ==
  { <<"P","1","1","5","6","9","-","1","1","-","9","9","-","4","0","-","2","6","1","9">>,
    <<"d","o","c","-","a">>,
    <<>> }

MaxLines == 2

FillerLine == <<"x">>

\* the text of `pad` filler lines followed by the chosen lines of the vocabulary
StructureText(in) ==
  Join([k \in 1..in.pad |-> FillerLine]
         \o [k \in 1..Len(in.lines) |-> LineVocabulary[in.lines[k]]], "\n")

StructureInputs ==
  [pad : {0, RefLines - 1, RefLines}, lines : SeqsUpTo(DOMAIN LineVocabulary, MaxLines),
   pdf_name : NameVocabulary]

StructureInit ==
  /\ entry = "structure"
  /\ Idle
  /\ probe \in {[input |-> in, done |-> FALSE, rows |-> <<>>,
                  repeated |-> FALSE, again |-> <<>>] : in \in StructureInputs}

T_Structure ==
  /\ entry = "structure" /\ ~probe.done
  /\ probe' = [probe EXCEPT !.done = TRUE,
                            !.rows = format_text_to_structure(StructureText(probe.input),
                                                              probe.input.pdf_name)]
  /\ IdleUnchanged

\* a second call that appends to the rows of the first: structured_data kept
\* between calls instead of starting empty
T_Again_accumulating ==
  /\ entry = "structure" /\ probe.done /\ ~probe.repeated
  /\ probe' = [probe EXCEPT !.repeated = TRUE,
                            !.again = probe.rows \o
                                      format_text_to_structure(StructureText(probe.input),
                                                               probe.input.pdf_name)]
  /\ IdleUnchanged

\* a second call with the same text and the same name: structured_data starts
\* empty again (line 220) and nothing of the first call is read
T_Again ==
  /\ entry = "structure" /\ probe.done /\ ~probe.repeated
  /\ probe' = [probe EXCEPT !.repeated = TRUE,
                            !.again = format_text_to_structure(StructureText(probe.input),
                                                               probe.input.pdf_name)]
  /\ IdleUnchanged

StructureNext == T_Structure \/ T_Again

SpecStructure == StructureInit /\ [][StructureNext]_vars

----------------------------------------------------------------------------
(* _is_pdf_scanned                                                         *)

\* s.count(p): the occurrences of p in s from position i on, not overlapping
RECURSIVE CountFrom(_, _, _)
CountFrom(s, i, p) ==
  LET Hit(j) == s[j] = p[1] /\ SubSeq(s, j, j + Len(p) - 1) = p
      hits   == {j \in i..(Len(s) - Len(p) + 1) : Hit(j)}
  IN  IF hits = {} THEN 0
      ELSE 1 + CountFrom(s, (CHOOSE j \in hits : \A k \in hits : j <= k) + Len(p), p)

\* `char.isalnum() or char.isspace() or char in '.,()-_:+=%'`
IsReadable(c) ==
  \/ IsAlpha(c) \/ IsDigit(c) \/ IsSpace(c)
  \/ c \in {".", ",", "(", ")", "-", "_", ":", "+", "=", "%"}

ocr_indicators ==
  << <<"UFFFD">>, <<"|">>, <<"\\">>, <<"/", "/">>, <<"]", "]">>, <<"[", "[">>,
     <<"{", "{">>, <<"}", "}">> >>

PagesToSample == 3

MinScanLen == 100

\* the loop over the sampled pages: a page whose extract_text raises adds
\* nothing (lines 515-517)
RECURSIVE SamplePages(_, _, _)
SamplePages(pages, k, total_text) ==
  IF k > Min({PagesToSample, Len(pages)}) THEN total_text
  ELSE SamplePages(pages, k + 1,
                   IF pages[k].direct.raises THEN total_text
                   ELSE total_text \o pages[k].direct.text)

\* readable_chars / total_chars < 0.5 is compared as 2 * readable_chars <
\* total_chars, artifact_count > len(total_text) * 0.02 as 50 * artifact_count >
\* len(total_text); total_chars is len(total_text)
_is_pdf_scanned(doc) ==
  IF doc.openFails THEN TRUE
  ELSE IF Len(doc.pages) = 0 THEN TRUE
  ELSE WithValue(SamplePages(doc.pages, 1, <<>>), LAMBDA total_text :
         LET readable_chars ==
               Cardinality({i \in 1..Len(total_text) : IsReadable(total_text[i])})
             total_chars == Len(total_text)
             artifact_count ==
               CountFrom(total_text, 1, ocr_indicators[1]) + CountFrom(total_text, 1, ocr_indicators[2])
                 + CountFrom(total_text, 1, ocr_indicators[3]) + CountFrom(total_text, 1, ocr_indicators[4])
                 + CountFrom(total_text, 1, ocr_indicators[5]) + CountFrom(total_text, 1, ocr_indicators[6])
                 + CountFrom(total_text, 1, ocr_indicators[7]) + CountFrom(total_text, 1, ocr_indicators[8])
         IN  IF Len(Strip(total_text)) < MinScanLen THEN TRUE
             ELSE IF total_chars > 0 /\ 2 * readable_chars < total_chars THEN TRUE
             ELSE IF 50 * artifact_count > Len(total_text) THEN TRUE
             ELSE FALSE)

MaxScanPages == 4

\* what extract_text can do on a page: raise, or return 120 or 40 letters, 120
\* symbols, 100 characters with 3 artifacts, 100 characters with 2
SampleVocabulary ==
  { Raises,
    Returns(Rep("a", 120)),
    Returns(Rep("a", 39) \o <<"\n">>),
    Returns(Rep("#", 120)),
    Returns(Rep("a", 94) \o <<"[", "[", "]", "]", "/", "/">>),
    Returns(Rep("a", 97) \o <<"|", " ", "\\">>) }

ScannedInputs ==
  {[Document(<<"s", ".", "p", "d", "f">>, TRUE, pages) EXCEPT !.openFails = fails] :
     pages \in SeqsUpTo({Page(direct, Raises, Raises) : direct \in SampleVocabulary},
                        MaxScanPages),
     fails \in BOOLEAN}

ScannedInit ==
  /\ entry = "scanned"
  /\ Idle
  /\ probe \in {[doc |-> d, done |-> FALSE, scanned |-> FALSE] : d \in ScannedInputs}

D_Scanned ==
  /\ entry = "scanned" /\ ~probe.done
  /\ probe' = [probe EXCEPT !.done = TRUE, !.scanned = _is_pdf_scanned(probe.doc)]
  /\ IdleUnchanged

SpecScanned == ScannedInit /\ [][D_Scanned]_vars

----------------------------------------------------------------------------
(* batch_process                                                           *)

\* pdf_file.name: the last path component
Name(path) == WithValue(SplitOn(path, "/"), LAMBDA parts : parts[Len(parts)])

\* the text process_pdf_to_excel works on (lines 590-612)
SelectedText(doc, force_ocr) ==
  IF force_ocr THEN ocr_pdf(doc)
  ELSE WithValue(extract_text_from_pdf(doc), LAMBDA direct :
         IF Strip(direct) = <<>> THEN ocr_pdf(doc)
         ELSE IF GoodExtraction(direct, SingleThreshold) THEN direct
         ELSE WithValue(ocr_pdf(doc), LAMBDA ocr :
                IF Strip(ocr) # <<>> /\ OcrImproves(ocr, direct) THEN ocr ELSE direct))

\* one call of process_pdf_to_excel as a whole: how it ends and the rows it
\* writes (lines 583-636)
ProcessPdf(doc, force_ocr) ==
  IF ~doc.exists THEN [outcome |-> "FileNotFoundError", rows |-> <<>>]
  ELSE WithValue(SelectedText(doc, force_ocr), LAMBDA selected :
         IF Strip(selected) = <<>>
           THEN [outcome |-> "ValueError: No text could be extracted", rows |-> <<>>]
         ELSE WithValue(format_text_to_structure(selected, Stem(doc.path)),
                        LAMBDA structured :
           IF doc.structureRaises \/ (structured = <<>> /\ doc.sampleRaises)
             THEN [outcome |-> "Exception", rows |-> <<>>]
           ELSE WithValue(IF structured = <<>>
                            THEN _generate_sample_attributes(Stem(doc.path))
                            ELSE structured,
                          LAMBDA data :
                  IF data = <<>>
                    THEN [outcome |-> "ValueError: No data could be structured",
                          rows |-> <<>>]
                    ELSE [outcome |-> "returned", rows |-> data])))

\* the steps of process_pdf_to_excel end as ProcessPdf says
ProcessPdfAgrees ==
  (entry = "single" /\ pc = "done")
    => /\ outcome = ProcessPdf(CurDoc, use_ocr).outcome
       /\ outcome = "returned" => excel = << ProcessPdf(CurDoc, use_ocr).rows >>

\* input_path.glob("*.pdf"): files that exist, each path once
Globs ==
  {q \in SeqsUpTo(Catalog, MaxDocs) :
     /\ \A k \in DOMAIN q : Doc(q[k]).exists
     /\ \A j, k \in DOMAIN q : j # k => Doc(q[j]).path # Doc(q[k]).path}

\* probe: whether input_dir exists, and the local list results
BatchInit ==
  /\ entry = "batch"
  /\ use_ocr \in BOOLEAN
  /\ pdf_paths \in Globs
  /\ idx = 1
  /\ pc = "start"
  /\ text = <<>>
  /\ ocr_text = <<>>
  /\ processing_method = "unset"
  /\ structured_data = <<>>
  /\ all_structured_data = <<>>
  /\ processing_summary = <<>>
  /\ excel = <<>>
  /\ outcome = "running"
  /\ calls = <<>>
  /\ probe \in {[input_dir_exists |-> e, results |-> <<>>] : e \in BOOLEAN}

\* lines 874-875
B_NotFound ==
  /\ entry = "batch" /\ pc = "start" /\ ~probe.input_dir_exists
  /\ outcome' = "FileNotFoundError"
  /\ pc' = "done"
  /\ UNCHANGED << entry, use_ocr, pdf_paths, idx, text, ocr_text, processing_method,
                  structured_data, all_structured_data, processing_summary, excel,
                  calls, probe >>

\* lines 877-887: no file ends the call, else the loop starts
B_List ==
  /\ entry = "batch" /\ pc = "start" /\ probe.input_dir_exists
  /\ IF pdf_paths = <<>>
       THEN outcome' = "returned" /\ pc' = "done"
       ELSE pc' = "loop" /\ UNCHANGED outcome
  /\ UNCHANGED << entry, use_ocr, pdf_paths, idx, text, ocr_text, processing_method,
                  structured_data, all_structured_data, processing_summary, excel,
                  calls, probe >>

\* lines 888-896: one file; process_pdf_to_excel writes the file's own workbook
\* or raises, and an exception of any kind is recorded as failed
B_Process ==
  /\ entry = "batch" /\ pc = "loop" /\ idx <= Len(pdf_paths)
  /\ \E r \in {ProcessPdf(CurDoc, use_ocr)} :
       IF r.outcome = "returned"
         THEN /\ excel' = Append(excel, r.rows)
              /\ probe' = [probe EXCEPT !.results =
                             Append(@, [file |-> Name(CurDoc.path), status |-> "success",
                                        rows |-> Len(r.rows)])]
         ELSE /\ UNCHANGED excel
              /\ probe' = [probe EXCEPT !.results =
                             Append(@, [file |-> Name(CurDoc.path), status |-> "failed",
                                        error |-> r.outcome])]
  /\ idx' = idx + 1
  /\ UNCHANGED << entry, use_ocr, pdf_paths, pc, text, ocr_text, processing_method,
                  structured_data, all_structured_data, processing_summary,
                  outcome, calls >>

\* lines 898-903
B_Finish ==
  /\ entry = "batch" /\ pc = "loop" /\ idx > Len(pdf_paths)
  /\ outcome' = "returned"
  /\ pc' = "done"
  /\ UNCHANGED << entry, use_ocr, pdf_paths, idx, text, ocr_text, processing_method,
                  structured_data, all_structured_data, processing_summary, excel,
                  calls, probe >>

BatchNext == B_NotFound \/ B_List \/ B_Process \/ B_Finish

SpecBatch == BatchInit /\ [][BatchNext]_vars

----------------------------------------------------------------------------
(* ocr_pdf step by step                                                    *)

MaxPages == 3

\* what the primary and the alternate recognition of a page can do: return
\* text, return blank text, raise
PrimaryVocabulary == {Returns(OcrText(3)), Returns(<<" ", "\n">>), Raises}

AltVocabulary == {Returns(<<"d", "d", "\n">>), Returns(<<>>), Raises}

PageVocabulary ==
  {Page(Returns(<<>>), primary, alt) : primary \in PrimaryVocabulary, alt \in AltVocabulary}

OcrInputs ==
  {[Document(<<"o", "c", "r", ".", "p", "d", "f">>, TRUE, pages)
      EXCEPT !.rasterFails = fails] :
     pages \in SeqsUpTo(PageVocabulary, MaxPages), fails \in BOOLEAN}

\* probe: the document, the page index i of the loop, the locals text and
\* successful_pages, the recognitions attempted (page, configuration), the
\* pages whose error was logged at line 157, and the value returned
OcrInit ==
  /\ entry = "ocr"
  /\ Idle
  /\ probe \in {[doc |-> d, phase |-> "rasterize", i |-> 1, text |-> <<>>,
                 successful_pages |-> 0, attempts |-> <<>>, errors |-> <<>>,
                 result |-> <<>>] : d \in OcrInputs}

\* lines 96-121: convert_from_path
O_Rasterize ==
  /\ entry = "ocr" /\ probe.phase = "rasterize"
  /\ probe' = IF probe.doc.rasterFails
                THEN [probe EXCEPT !.phase = "done", !.result = <<>>]
                ELSE [probe EXCEPT !.phase = "primary"]
  /\ IdleUnchanged

\* the primary recognition with a retry under alt_config after an error too
O_Primary_retryonerror ==
  /\ entry = "ocr" /\ probe.phase = "primary" /\ probe.i <= Len(probe.doc.pages)
  /\ \E page \in {probe.doc.pages[probe.i].primary} :
       probe' =
         IF ~page.raises /\ Strip(page.text) # <<>>
           THEN [probe EXCEPT !.attempts = Append(@, <<probe.i, "primary">>),
                              !.text = @ \o page.text \o <<"\n">>,
                              !.successful_pages = @ + 1,
                              !.i = @ + 1]
         ELSE [probe EXCEPT !.attempts = Append(@, <<probe.i, "primary">>),
                            !.phase = "alt"]
  /\ IdleUnchanged

\* lines 123-146 and 156-159: the primary recognition of page i
O_Primary ==
  /\ entry = "ocr" /\ probe.phase = "primary" /\ probe.i <= Len(probe.doc.pages)
  /\ \E page \in {probe.doc.pages[probe.i].primary} :
       probe' =
         IF page.raises
           THEN [probe EXCEPT !.attempts = Append(@, <<probe.i, "primary">>),
                              !.errors = Append(@, probe.i),
                              !.i = @ + 1]
         ELSE IF Strip(page.text) # <<>>
           THEN [probe EXCEPT !.attempts = Append(@, <<probe.i, "primary">>),
                              !.text = @ \o page.text \o <<"\n">>,
                              !.successful_pages = @ + 1,
                              !.i = @ + 1]
         ELSE [probe EXCEPT !.attempts = Append(@, <<probe.i, "primary">>),
                            !.phase = "alt"]
  /\ IdleUnchanged

\* lines 147-159: the recognition of page i with alt_config
O_Alternate ==
  /\ entry = "ocr" /\ probe.phase = "alt"
  /\ \E page \in {probe.doc.pages[probe.i].alt} :
       probe' =
         IF page.raises
           THEN [probe EXCEPT !.attempts = Append(@, <<probe.i, "alt">>),
                              !.errors = Append(@, probe.i),
                              !.phase = "primary", !.i = @ + 1]
         ELSE IF Strip(page.text) # <<>>
           THEN [probe EXCEPT !.attempts = Append(@, <<probe.i, "alt">>),
                              !.text = @ \o page.text \o <<"\n">>,
                              !.successful_pages = @ + 1,
                              !.phase = "primary", !.i = @ + 1]
         ELSE [probe EXCEPT !.attempts = Append(@, <<probe.i, "alt">>),
                            !.phase = "primary", !.i = @ + 1]
  /\ IdleUnchanged

\* after the loop, with the text thrown away when fewer than half of the
\* pages succeeded
O_Finish_discardpartial ==
  /\ entry = "ocr" /\ probe.phase = "primary" /\ probe.i > Len(probe.doc.pages)
  /\ probe' = [probe EXCEPT !.phase = "done",
                            !.result = IF 2 * probe.successful_pages < Len(probe.doc.pages)
                                         THEN <<>>
                                         ELSE Strip(probe.text)]
  /\ IdleUnchanged

\* lines 161-169: after the loop
O_Finish ==
  /\ entry = "ocr" /\ probe.phase = "primary" /\ probe.i > Len(probe.doc.pages)
  /\ probe' = [probe EXCEPT !.phase = "done",
                            !.result = IF probe.successful_pages = 0 THEN <<>>
                                       ELSE Strip(probe.text)]
  /\ IdleUnchanged

OcrNext == O_Rasterize \/ O_Primary \/ O_Alternate \/ O_Finish

SpecOcr == OcrInit /\ [][OcrNext]_vars

\* the steps return what ocr_pdf, as used by the entry points, returns
OcrStepsAgree ==
  (entry = "ocr" /\ probe.phase = "done") => probe.result = ocr_pdf(probe.doc)

----------------------------------------------------------------------------
(* Properties                                                              *)

(* extract_text_from_pdf step by step                                      *)

\* what page.extract_text() of a page can do: return text (with or without
\* surrounding whitespace), return blank text, raise
DirectVocabulary ==
  {Returns(<<"a", "b">>), Returns(<<" ", "c", "\n">>), Returns(<<" ", "\n">>), Raises}

ExtractInputs ==
  {[Document(<<"t", "x", "t", ".", "p", "d", "f">>, TRUE, pages)
      EXCEPT !.openFails = fails] :
     pages \in SeqsUpTo({Page(direct, Returns(<<>>), Returns(<<>>)) :
                           direct \in DirectVocabulary}, MaxPages),
     fails \in BOOLEAN}

\* probe: the document, the page index i of the loop, the local text, the
\* pages whose error was logged at line 66, and the value returned
ExtractInit ==
  /\ entry = "extract"
  /\ Idle
  /\ probe \in {[doc |-> d, phase |-> "open", i |-> 1, text |-> <<>>,
                 errors |-> <<>>, result |-> <<>>] : d \in ExtractInputs}

\* lines 52-56 and 71-73: open the file and build the reader
E_Open ==
  /\ entry = "extract" /\ probe.phase = "open"
  /\ probe' = IF probe.doc.openFails
                THEN [probe EXCEPT !.phase = "done", !.result = <<>>]
                ELSE [probe EXCEPT !.phase = "pages"]
  /\ IdleUnchanged

\* one page, with an error on a page ending the extraction of the document
E_Page_abort ==
  /\ entry = "extract" /\ probe.phase = "pages" /\ probe.i <= Len(probe.doc.pages)
  /\ \E page \in {probe.doc.pages[probe.i].direct} :
       probe' =
         IF page.raises
           THEN [probe EXCEPT !.errors = Append(@, probe.i),
                              !.phase = "done", !.result = <<>>]
         ELSE IF Strip(page.text) # <<>>
           THEN [probe EXCEPT !.text = @ \o page.text \o <<"\n">>, !.i = @ + 1]
         ELSE [probe EXCEPT !.i = @ + 1]
  /\ IdleUnchanged

\* lines 58-67: one iteration of the page loop
E_Page ==
  /\ entry = "extract" /\ probe.phase = "pages" /\ probe.i <= Len(probe.doc.pages)
  /\ \E page \in {probe.doc.pages[probe.i].direct} :
       probe' =
         IF page.raises
           THEN [probe EXCEPT !.errors = Append(@, probe.i), !.i = @ + 1]
         ELSE IF Strip(page.text) # <<>>
           THEN [probe EXCEPT !.text = @ \o page.text \o <<"\n">>, !.i = @ + 1]
         ELSE [probe EXCEPT !.i = @ + 1]
  /\ IdleUnchanged

\* line 69: return text.strip()
E_Finish ==
  /\ entry = "extract" /\ probe.phase = "pages" /\ probe.i > Len(probe.doc.pages)
  /\ probe' = [probe EXCEPT !.phase = "done", !.result = Strip(probe.text)]
  /\ IdleUnchanged

ExtractNext == E_Open \/ E_Page \/ E_Finish

SpecExtract == ExtractInit /\ [][ExtractNext]_vars

\* the steps return what extract_text_from_pdf, as used by the entry points, returns
ExtractStepsAgree ==
  (entry = "extract" /\ probe.phase = "done") =>
    probe.result = extract_text_from_pdf(probe.doc)

----------------------------------------------------------------------------

DocAt(k) == Doc(pdf_paths[k])

\* what direct extraction and OCR return for the k-th document
DirectOf(k) == extract_text_from_pdf(DocAt(k))

OcrOf(k) == ocr_pdf(DocAt(k))

Exists(k) == DocAt(k).exists

\* the sufficiency check of the entry point that is running
PassesSufficiency(t) ==
  /\ Len(Strip(t)) > (IF entry = "single" THEN SingleThreshold ELSE MultiThreshold)
  /\ ~_is_low_quality_extraction(t)

\* the text of the current document has just been selected, OCR not forced
Selecting == idx <= Len(pdf_paths) /\ pc = "selected" /\ ~use_ocr

\* C1: when the direct text is not empty but fails the sufficiency check, the
\* OCR text replaces it only if the OCR text is not empty and its trimmed length
\* is strictly more than 1.5 times the trimmed length of the direct text;
\* otherwise the direct text is kept. With 40 characters of direct text and 45
\* of OCR text the direct text is kept and the method is text_extraction.
C1_OcrReplacesOnlyAboveOneAndAHalf ==
  (Selecting /\ Strip(DirectOf(idx)) # <<>> /\ ~PassesSufficiency(DirectOf(idx)))
    => /\ text = IF /\ Strip(OcrOf(idx)) # <<>>
                    /\ 2 * Len(Strip(OcrOf(idx))) > 3 * Len(Strip(DirectOf(idx)))
                   THEN OcrOf(idx) ELSE DirectOf(idx)
       /\ (Len(Strip(DirectOf(idx))) = 40 /\ Len(Strip(OcrOf(idx))) = 45)
            => /\ text = DirectOf(idx)
               /\ entry = "multi" => processing_method = "text_extraction"

C1_Witness ==
  /\ Selecting /\ entry = "multi"
  /\ Len(Strip(DirectOf(idx))) = 40 /\ Len(Strip(OcrOf(idx))) = 45
  /\ <<idx, "ocr">> \in Range(calls)
  /\ text = DirectOf(idx)
  /\ processing_method = "text_extraction"

\* neither direct extraction nor OCR yields any text for the k-th document
BothEmpty(k) == Exists(k) /\ DirectOf(k) = <<>> /\ OcrOf(k) = <<>>

\* the place in processing_summary of the entry of the k-th document: documents
\* that do not exist get none
SummaryIndex(k) == Cardinality({i \in 1..k : Exists(i)})

FallbackStatuses == {"sample_data", "failed_with_sample", "error_with_sample"}

\* C2: for a document with empty direct text and empty OCR text,
\* single-document processing fails with the no-extractable-text error (and
\* writes nothing), and multi-document processing records a summary entry for
\* that document whose status is complete_failure or a sample-data fallback
\* status: the document is never silently dropped.
C2_NoTextFailsOrIsRecorded ==
  /\ (entry = "single" /\ pc = "done" /\ BothEmpty(1))
       => outcome = "ValueError: No text could be extracted" /\ excel = <<>>
  /\ entry = "multi"
       => \A k \in 1..Len(pdf_paths) :
            (k < idx /\ BothEmpty(k))
              => /\ SummaryIndex(k) <= Len(processing_summary)
                 /\ processing_summary[SummaryIndex(k)].file = Stem(DocAt(k).path)
                 /\ processing_summary[SummaryIndex(k)].status
                      \in FallbackStatuses \cup {"complete_failure"}

C2_Witness ==
  /\ entry = "multi" /\ pc = "done" /\ Len(pdf_paths) = 2
  /\ BothEmpty(2) /\ ~BothEmpty(1) /\ Exists(1)
  /\ Len(processing_summary) = 2
  /\ processing_summary[2].status = "failed_with_sample"

\* C3: the position numbers of the rows produced for one document are exactly
\* 1, 2, ..., n in row order, over the template phase and the scan phase.
C3_PositionsAreOneToN ==
  (entry = "structure" /\ probe.done)
    => \A i \in 1..Len(probe.rows) : probe.rows[i][4] = i

\* 15 template rows followed by two rows of the scan phase
C3_Witness ==
  /\ entry = "structure" /\ probe.done
  /\ Len(probe.rows) = 17
  /\ probe.rows[15][5] = <<"A","L","A","R","M">>
  /\ probe.rows[16][4] = 16 /\ probe.rows[17][4] = 17

\* no line of the first RefLines lines of the text holds a reference pattern
NoRefInFirstLines(t) ==
  \A k \in 1..Min({Len(TextLines(t)), RefLines}) : ~SearchDocRef(TextLines(t)[k]).found

\* C4: processing a document named P11569-11-99-40-2619.pdf whose text has no
\* reference pattern in its first 20 lines stamps the reference
\* P11569-11-99-40-2619-1 on every row that is written.
C4_NameDerivedReference ==
  (/\ entry = "single" /\ pc = "done" /\ outcome = "returned"
   /\ Stem(DocAt(1).path) = <<"P","1","1","5","6","9","-","1","1","-","9","9","-","4","0","-","2","6","1","9">>
   /\ NoRefInFirstLines(text))
    => \A i \in 1..Len(excel[1]) :
         excel[1][i][11] = <<"P","1","1","5","6","9","-","1","1","-","9","9","-","4","0","-","2","6","1","9","-","1">>

\* the k-th document has text to work on: OCR text when OCR is forced, direct
\* or OCR text otherwise
Usable(k) ==
  /\ Exists(k)
  /\ IF use_ocr THEN OcrOf(k) # <<>> ELSE DirectOf(k) # <<>> \/ OcrOf(k) # <<>>

\* no exception is raised while the k-th document is processed
Quiet(k) == ~DocAt(k).structureRaises /\ ~DocAt(k).sampleRaises

\* C5: combining two documents, the first with usable text and the second with
\* no text from either method, succeeds; the table written holds the structured
\* rows of the first document followed by the sample rows of the second, and
\* the summary holds exactly one success and one failed_with_sample entry.
C5_CombineUsableThenEmpty ==
  (/\ entry = "multi" /\ pc = "done" /\ Len(pdf_paths) = 2
   /\ Usable(1) /\ Quiet(1) /\ BothEmpty(2) /\ Quiet(2))
    => /\ outcome = "returned"
       /\ Len(excel) = 1
       /\ \E t \in {DirectOf(1), OcrOf(1)} :
            /\ format_text_to_structure(t, Stem(DocAt(1).path)) # <<>>
            /\ excel[1] = format_text_to_structure(t, Stem(DocAt(1).path))
                            \o _generate_sample_attributes(Stem(DocAt(2).path))
       /\ Len(processing_summary) = 2
       /\ processing_summary[1].status = "success"
       /\ processing_summary[1].file = Stem(DocAt(1).path)
       /\ processing_summary[2].status = "failed_with_sample"
       /\ processing_summary[2].file = Stem(DocAt(2).path)

C5_Witness ==
  /\ entry = "multi" /\ pc = "done" /\ outcome = "returned"
  /\ pdf_paths = <<"good", "blank">>
  /\ Len(excel[1]) = 32
  /\ excel[1][17][1] = DefaultLocation /\ excel[1][18][1] = SampleLocation

\* C6: when OCR is not forced and the direct text is not empty and passes the
\* sufficiency check, the selected text is the direct text (method
\* text_extraction when combining) and OCR is never run for that document.
C6_GoodDirectTextSkipsOcr ==
  ~use_ocr
    => \A k \in 1..Len(pdf_paths) :
         (/\ k <= idx /\ Exists(k)
          /\ Strip(DirectOf(k)) # <<>> /\ PassesSufficiency(DirectOf(k)))
           => /\ <<k, "ocr">> \notin Range(calls)
              /\ (k = idx /\ pc \in {"selected", "write", "except", "done"})
                   => /\ text = DirectOf(k)
                      /\ entry = "multi" => processing_method = "text_extraction"

C6_Witness ==
  /\ Selecting /\ entry = "multi" /\ idx = 2
  /\ PassesSufficiency(DirectOf(2)) /\ text = DirectOf(2)
  /\ processing_method = "text_extraction"
  /\ calls = <<<<1, "extract">>, <<1, "ocr">>, <<2, "extract">>>>

\* the three measures of a text built from probe.input
TrimmedLength(q) == q.alpha + q.digit + q.garble

TotalLength(q) == q.lead + q.alpha + q.digit + q.garble + q.trail

\* C7: the classifier returns low quality exactly when the trimmed length is
\* below 50, or fewer than 30% of the characters are alphabetic, or the garble
\* characters are more than 5% of the total length. Every text of length 10 is
\* low quality; a text of length 1000 with 80% alphabetic characters and no
\* garble character is not.
C7_LowQualityExactly ==
  (entry = "quality" /\ probe.done)
    => /\ probe.low_quality
            <=> \/ TrimmedLength(probe.input) < 50
                \/ 10 * probe.input.alpha < 3 * TotalLength(probe.input)
                \/ 20 * probe.input.garble > TotalLength(probe.input)
       /\ TotalLength(probe.input) = 10 => probe.low_quality
       /\ (/\ TotalLength(probe.input) = 1000 /\ probe.input.alpha = 800
           /\ probe.input.garble = 0) => ~probe.low_quality

C7_Witness ==
  /\ entry = "quality" /\ probe.done
  /\ TotalLength(probe.input) = 1000 /\ probe.input.alpha = 800
  /\ probe.input.garble = 0
  /\ ~probe.low_quality

\* processing the k-th document raises an exception: structuring the text when
\* there is text, generating the sample rows when there is none
Raising(k) == IF Usable(k) THEN DocAt(k).structureRaises ELSE DocAt(k).sampleRaises

\* C8: when processing one document of a combination raises an exception, the
\* exception is caught, the sample fallback is tried and the document is
\* recorded as error_with_sample, or as complete_failure if the fallback fails
\* too; the run goes on with the documents that follow and never ends with the
\* exception.
C8_ExceptionIsCaughtAndRecorded ==
  /\ [](entry = "multi"
          => /\ outcome # "Exception"
             /\ pc = "done" => /\ idx = Len(pdf_paths) + 1
                               /\ Len(processing_summary) = SummaryIndex(Len(pdf_paths))
             /\ \A k \in 1..Len(pdf_paths) :
                  (k < idx /\ Exists(k) /\ Raising(k))
                    => /\ SummaryIndex(k) <= Len(processing_summary)
                       /\ processing_summary[SummaryIndex(k)].file = Stem(DocAt(k).path)
                       /\ processing_summary[SummaryIndex(k)].status =
                            IF DocAt(k).sampleRaises THEN "complete_failure"
                            ELSE "error_with_sample")
  /\ [][(entry = "multi" /\ pc = "except")
          => /\ idx' = idx + 1 /\ pc' = "start" /\ outcome' = "running"
             /\ Len(processing_summary') = Len(processing_summary) + 1]_vars

C8_Witness ==
  /\ entry = "multi" /\ pc = "done" /\ outcome = "returned"
  /\ pdf_paths = <<"raising", "good">>
  /\ Len(processing_summary) = 2
  /\ processing_summary[1].status = "error_with_sample"
  /\ processing_summary[2].status = "success"

\* C9: when every document has been handled and no row has been accumulated,
\* the combination fails with the empty-batch error and the writer is never
\* invoked.
C9_EmptyBatchFailsWithoutWriting ==
  (entry = "multi" /\ pc = "done" /\ all_structured_data = <<>>)
    => /\ outcome = "ValueError: No structured data could be created from any PDF"
       /\ excel = <<>>

C9_Witness ==
  /\ entry = "multi" /\ pc = "done" /\ all_structured_data = <<>>
  /\ pdf_paths = <<"missing", "doomed">>
  /\ Len(processing_summary) = 1
  /\ processing_summary[1].status = "complete_failure"
  /\ outcome = "ValueError: No structured data could be created from any PDF"

RECURSIVE RowsBefore(_)
RowsBefore(j) == IF j = 0 THEN 0 ELSE RowsBefore(j - 1) + processing_summary[j].rows

\* the references on the rows accumulated for the j-th entry of processing_summary
RefsOf(j) ==
  {all_structured_data[i][11] : i \in (RowsBefore(j - 1) + 1)..RowsBefore(j)}

\* C12: in the combined output, rows produced for two documents with different
\* file names never carry the same document reference.
C12_ReferenceIdentifiesDocument ==
  entry = "multi"
    => \A a, b \in 1..Len(processing_summary) :
         processing_summary[a].file # processing_summary[b].file
           => RefsOf(a) \cap RefsOf(b) = {}

\* the match longer than 8 characters that each line of LineVocabulary holds
\* for the location patterns (<<>>: none)
VocabularyLocation ==
  << <<>>, <<>>, <<>>, <<"1","1","-","1","8","-","A","B","C","D","-","1","2","3","4">>, <<>>, <<>>,
     <<"Z","Z","-","1","2","3","4","5","6","7","8","9">>, <<>> >>

\* the first element of a sequence of strings that is not empty, else a default
FirstNonEmpty(found, default) ==
  IF \A k \in DOMAIN found : found[k] = <<>> THEN default
  ELSE found[CHOOSE k \in DOMAIN found :
               found[k] # <<>> /\ \A j \in 1..(k - 1) : found[j] = <<>>]

\* C13: the functional location is the first match longer than 8 characters
\* met when the lines are scanned in order; a match in a later line never
\* replaces it, and without any match the placeholder 11-18-XTGD-5403 is used.
C13_FirstLocationWins ==
  (entry = "structure" /\ probe.done /\ probe.rows # <<>>)
    => \E expected \in {FirstNonEmpty([k \in 1..Len(probe.input.lines) |->
                                         VocabularyLocation[probe.input.lines[k]]],
                                      <<"1","1","-","1","8","-","X","T","G","D","-","5","4","0","3">>)} :
         \A i \in 1..Len(probe.rows) : probe.rows[i][1] = expected

\* C14: combining without forced OCR, whenever OCR was attempted and the direct
\* text is nevertheless the text kept for structuring, the method recorded is
\* text_extraction; ocr_fallback is recorded exactly when the OCR text is kept.
C14_MethodNamesTheKeptText ==
  (/\ entry = "multi" /\ Selecting /\ <<idx, "ocr">> \in Range(calls))
    => /\ (Strip(text) # <<>> /\ text = DirectOf(idx))
            => processing_method = "text_extraction"
       /\ processing_method = "ocr_fallback"
            <=> (Strip(text) # <<>> /\ text = OcrOf(idx) /\ text # DirectOf(idx))

\* C15: when the primary recognition of a page raises an error, the alternate
\* configuration is tried once for that page before the page is given up, the
\* failure is logged, and the pages that follow are still processed.
C15_AlternateTriedAfterError ==
  (entry = "ocr" /\ ~probe.doc.rasterFails)
    => /\ \A k \in 1..Len(probe.doc.pages) :
            (k < probe.i /\ probe.doc.pages[k].primary.raises)
              => /\ Cardinality({a \in DOMAIN probe.attempts :
                                   probe.attempts[a] = <<k, "alt">>}) = 1
                 /\ k \in Range(probe.errors)
       /\ probe.phase = "done"
            => \A k \in 1..Len(probe.doc.pages) : <<k, "primary">> \in Range(probe.attempts)

\* C16: in batch_process and in process_multiple_pdfs_to_excel alike, a
\* document for which direct extraction and OCR both give no text gets the
\* sample rows (the sample-data fallback) and is not recorded as failed without
\* data; the run is not aborted.
C16_BatchModesFallBackToSample ==
  /\ entry = "batch"
       => /\ outcome \notin {"Exception", "ValueError: No text could be extracted"}
          /\ \A k \in 1..Len(probe.results) :
               (BothEmpty(k) /\ Quiet(k))
                 => /\ probe.results[k].status = "success"
                    /\ probe.results[k].rows = Len(sample_attributes)
  /\ entry = "multi"
       => \A k \in 1..Len(pdf_paths) :
            (k < idx /\ BothEmpty(k) /\ Quiet(k))
              => /\ SummaryIndex(k) <= Len(processing_summary)
                 /\ processing_summary[SummaryIndex(k)].status = "failed_with_sample"
                 /\ processing_summary[SummaryIndex(k)].rows = Len(sample_attributes)

\* C17: _is_pdf_scanned answers "scanned" whenever extract_text raises on one
\* of the sampled pages (the first 3 at most), whatever readable text the other
\* sampled pages give.
C17_ExceptionMeansScanned ==
  (/\ entry = "scanned" /\ probe.done
   /\ \E k \in 1..Min({3, Len(probe.doc.pages)}) : probe.doc.pages[k].direct.raises)
    => probe.scanned

\* the names and numbers of the template rows when an entry is skipped exactly
\* if its value is empty and the counter is a multiple of 3, from entry k on
RECURSIVE ExpectedTemplate(_, _)
ExpectedTemplate(k, counter) ==
  IF k > Len(equipment_attributes) THEN <<>>
  ELSE IF equipment_attributes[k][2] = <<>> /\ counter % 3 = 0
    THEN ExpectedTemplate(k + 1, counter)
  ELSE << <<equipment_attributes[k][1], equipment_attributes[k][2], counter>> >>
         \o ExpectedTemplate(k + 1, counter + 1)

ExpectedTemplateRows == ExpectedTemplate(1, 1)

\* C18: in the template phase an entry is skipped if and only if its value is
\* empty and the running position counter is a multiple of 3; every other
\* entry gives one row, and a skip leaves the counter unchanged.
C18_SkipEmptyAtMultiplesOfThree ==
  (entry = "structure" /\ probe.done /\ probe.rows # <<>>)
    => /\ Len(probe.rows) >= Len(ExpectedTemplateRows)
       /\ \A i \in 1..Len(ExpectedTemplateRows) :
            /\ probe.rows[i][5] = ExpectedTemplateRows[i][1]
            /\ probe.rows[i][6] = ExpectedTemplateRows[i][2]
            /\ probe.rows[i][4] = ExpectedTemplateRows[i][3]
       /\ \A i \in (Len(ExpectedTemplateRows) + 1)..Len(probe.rows) :
            SubSeq(probe.rows[i][5], 1, 4) = <<"S", "P", "E", "C">>

\* the entry without a value is met at counter 5 and gives a row
C18_Witness ==
  /\ entry = "structure" /\ probe.done /\ Len(probe.rows) = 16
  /\ probe.rows[5][5] = <<"E","N","V","I","R","O","N","T">>
  /\ probe.rows[5][6] = <<>> /\ probe.rows[5][4] = 5
  /\ probe.rows[6][4] = 6

\* the reference, with its P, that each line of LineVocabulary holds (<<>>: none)
VocabularyReference ==
  << <<>>, <<>>, <<>>, <<>>, <<"P","7","-","8",".","9","-","1","0">>, <<>>, <<>>,
     <<"P","1",".","2",".","3",".","4">> >>

\* the lines of probe.input that are not blank, as indices of LineVocabulary
NonBlankLines(in) == SelectSeq(in.lines, LAMBDA v : Strip(LineVocabulary[v]) # <<>>)

\* the reference of the earliest of the first 20 non-empty lines that holds
\* one, else the reference the document name gives
ExpectedReference(in) ==
  WithValue(NonBlankLines(in), LAMBDA nonblank :
    FirstNonEmpty([k \in 1..Len(nonblank) |->
                     IF in.pad + k <= 20 THEN VocabularyReference[nonblank[k]] ELSE <<>>],
                  IF in.pdf_name # <<>> THEN NameDocRef(in.pdf_name) ELSE DefaultDocRef))

\* C19: if one of the first 20 non-empty lines holds the reference pattern, the
\* document reference is the match of the earliest such line, with a P in front
\* when it has none, whatever the document name gives; lines after the 20th
\* never count.
C19_EarliestReferenceInFirstTwenty ==
  (entry = "structure" /\ probe.done /\ probe.rows # <<>>)
    => \E expected \in {ExpectedReference(probe.input)} :
         \A i \in 1..Len(probe.rows) : probe.rows[i][11] = expected

\* the 20th line holds a reference without P, the 21st another one
C19_Witness ==
  /\ entry = "structure" /\ probe.done
  /\ probe.input.pad = 19 /\ probe.input.lines = <<5, 8>>
  /\ probe.input.pdf_name = <<"P","1","1","5","6","9","-","1","1","-","9","9","-","4","0","-","2","6","1","9">>
  /\ probe.rows[1][11] = <<"P","7","-","8",".","9","-","1","0">>

\* the first token with a digit of each line of LineVocabulary that has a
\* keyword and no denylist substring (<<>>: the line gives no row)
VocabularyValue ==
  << <<"0","-","5","0">>, <<>>, <<>>, <<>>, <<>>, <<>>,
     <<"Z","Z","-","1","2","3","4","5","6","7","8","9">>, <<>> >>

\* the values of the rows the lines of probe.input give, in line order
ExpectedValues(in) ==
  SelectSeq([k \in 1..Len(in.lines) |-> VocabularyValue[in.lines[k]]],
            LAMBDA v : v # <<>>)

DecimalDigits == <<"0", "1", "2", "3", "4", "5", "6", "7", "8", "9">>

\* SPEC and the two digits of n
SpecName(n) ==
  <<"S", "P", "E", "C">> \o <<DecimalDigits[(n \div 10) + 1], DecimalDigits[(n % 10) + 1]>>

\* C20: in the line-scanning phase a line gives at most one row: none for a
\* line with a denylist substring, one for a line with a keyword (in any case)
\* whose value is the first token with a digit and whose name is SPEC and the
\* row's own two-digit position number, none for a keyword line without such a
\* token. The rows follow the template rows in line order.
C20_OneRowPerKeywordLine ==
  (entry = "structure" /\ probe.done /\ probe.rows # <<>>)
    => \E values \in {ExpectedValues(probe.input)} :
         /\ Len(probe.rows) = Len(equipment_attributes) + Len(values)
         /\ \A i \in 1..Len(equipment_attributes) :
              probe.rows[i][5] = equipment_attributes[i][1]
         /\ \A j \in 1..Len(values) :
              /\ probe.rows[Len(equipment_attributes) + j][6] = values[j]
              /\ probe.rows[Len(equipment_attributes) + j][5]
                   = SpecName(probe.rows[Len(equipment_attributes) + j][4])

C20_Witness ==
  /\ entry = "structure" /\ probe.done
  /\ probe.input.lines = <<7, 1>>
  /\ Len(probe.rows) = 17
  /\ probe.rows[16][6] = <<"Z","Z","-","1","2","3","4","5","6","7","8","9">>
  /\ probe.rows[17][6] = <<"0","-","5","0">>
  /\ probe.rows[17][5] = <<"S","P","E","C","1","7">>

\* what the recognition of page i with configuration c did
AttemptOutcome(i, c) ==
  IF c = "primary" THEN probe.doc.pages[i].primary ELSE probe.doc.pages[i].alt

GaveText(i, c) ==
  /\ ~AttemptOutcome(i, c).raises
  /\ \E ch \in Range(AttemptOutcome(i, c).text) : ch \notin Whitespace

AttemptsOf(i) == {k \in 1..Len(probe.attempts) : probe.attempts[k][1] = i}

Attempted(i, c) == \E k \in AttemptsOf(i) : probe.attempts[k][2] = c

\* pages whose loop iteration is over
PagesDone == {i \in 1..Len(probe.doc.pages) : i < probe.i}

PrimaryBlank(i) ==
  /\ ~probe.doc.pages[i].primary.raises
  /\ \A ch \in Range(probe.doc.pages[i].primary.text) : ch \in Whitespace

\* C21: in ocr_pdf the recognition with alt_config is run for a page iff the
\* primary recognition of the page returned empty or whitespace-only text, and
\* then once; no page gets more than two recognitions, the primary one first;
\* and the pages counted in successful_pages are exactly the pages one of
\* whose recognitions returned non-blank text.
C21_AlternateIffPrimaryBlank ==
  entry = "ocr" =>
    /\ \A i \in PagesDone :
         /\ Attempted(i, "alt") <=> PrimaryBlank(i)
         /\ Cardinality(AttemptsOf(i)) <= 2
         /\ \A k, m \in AttemptsOf(i) :
              probe.attempts[k][2] = probe.attempts[m][2] => k = m
         /\ \A k \in AttemptsOf(i) :
              probe.attempts[k][2] = "alt" =>
                \E m \in AttemptsOf(i) : m < k /\ probe.attempts[m][2] = "primary"
    /\ probe.successful_pages =
         Cardinality({i \in PagesDone :
                        \E c \in {"primary", "alt"} : Attempted(i, c) /\ GaveText(i, c)})
    /\ \A k \in 1..Len(probe.attempts) : probe.attempts[k][1] <= probe.i

\* a finished run of two pages: the first blank under the primary configuration
\* and read under alt_config, the second raising in the primary recognition
C21_Witness ==
  /\ entry = "ocr" /\ probe.phase = "done"
  /\ Len(probe.doc.pages) = 2
  /\ PrimaryBlank(1) /\ Attempted(1, "alt") /\ GaveText(1, "alt")
  /\ probe.doc.pages[2].primary.raises /\ ~Attempted(2, "alt")
  /\ probe.successful_pages = 1
  /\ Len(probe.attempts) = 3

\* the configuration whose recognition gave the text of page i, if any
YieldsText(i) ==
  \/ GaveText(i, "primary")
  \/ PrimaryBlank(i) /\ GaveText(i, "alt")

YieldedText(i) ==
  IF GaveText(i, "primary") THEN probe.doc.pages[i].primary.text
  ELSE probe.doc.pages[i].alt.text

\* the texts of the pages from i on that yielded text, each closed by a newline
RECURSIVE JoinedFrom(_)
JoinedFrom(i) ==
  IF i > Len(probe.doc.pages) THEN <<>>
  ELSE IF YieldsText(i) THEN YieldedText(i) \o <<"\n">> \o JoinedFrom(i + 1)
  ELSE JoinedFrom(i + 1)

PagesWithText == {i \in 1..Len(probe.doc.pages) : YieldsText(i)}

\* C22: ocr_pdf returns the empty string when rasterization fails or no page
\* yields text; otherwise it returns the texts of the pages that yielded text,
\* joined in page order (trimmed as a whole), also when fewer than half of
\* the pages yielded text.
C22_PartialOcrIsReturned ==
  (entry = "ocr" /\ probe.phase = "done") =>
    probe.result = IF probe.doc.rasterFails \/ PagesWithText = {}
                     THEN <<>>
                     ELSE Strip(JoinedFrom(1))

\* a finished run in which one page of three yielded text and the text is returned
C22_Witness ==
  /\ entry = "ocr" /\ probe.phase = "done"
  /\ ~probe.doc.rasterFails
  /\ Len(probe.doc.pages) = 3
  /\ Cardinality(PagesWithText) = 1
  /\ 2 * probe.successful_pages < Len(probe.doc.pages)
  /\ probe.result # <<>>

DirectGaveText(i) ==
  /\ ~probe.doc.pages[i].direct.raises
  /\ \E ch \in Range(probe.doc.pages[i].direct.text) : ch \notin Whitespace

\* the texts of the pages i..j that yielded text, each closed by a newline
RECURSIVE DirectJoined(_, _)
DirectJoined(i, j) ==
  IF i > j THEN <<>>
  ELSE IF DirectGaveText(i)
    THEN probe.doc.pages[i].direct.text \o <<"\n">> \o DirectJoined(i + 1, j)
  ELSE DirectJoined(i + 1, j)

\* C23: extract_text_from_pdf does not abort the document for a page that
\* fails: at every point of the loop the accumulated text is that of the
\* pages visited so far that yielded non-blank text, in page order (a raising
\* page is logged and adds nothing), every page is visited, and the value
\* returned is that concatenation over all pages (trimmed as a whole), the
\* empty string if no page yielded text.
C23_PageFailureIsSkipped ==
  (entry = "extract" /\ ~probe.doc.openFails) =>
    /\ probe.phase = "pages" =>
         /\ probe.text = DirectJoined(1, probe.i - 1)
         /\ \A k \in 1..Len(probe.errors) : probe.doc.pages[probe.errors[k]].direct.raises
         /\ \A p \in 1..(probe.i - 1) :
              probe.doc.pages[p].direct.raises =>
                \E k \in 1..Len(probe.errors) : probe.errors[k] = p
    /\ probe.phase = "done" =>
         /\ probe.i = Len(probe.doc.pages) + 1
         /\ probe.result = Strip(DirectJoined(1, Len(probe.doc.pages)))
         /\ (\A p \in 1..Len(probe.doc.pages) : ~DirectGaveText(p)) => probe.result = <<>>

\* a finished extraction of three pages: text, then a raising page, then text
C23_Witness ==
  /\ entry = "extract" /\ probe.phase = "done"
  /\ ~probe.doc.openFails
  /\ Len(probe.doc.pages) = 3
  /\ DirectGaveText(1) /\ probe.doc.pages[2].direct.raises /\ DirectGaveText(3)
  /\ probe.errors = <<2>>
  /\ probe.result = probe.doc.pages[1].direct.text \o <<"\n">> \o
                      Strip(probe.doc.pages[3].direct.text)

\* the k-th document has been taken up: it exists and its strategy has run
Started(k) == Exists(k) /\ (k < idx \/ (k = idx /\ pc # "start"))

\* C24: when OCR is forced, OCR is run for every document that is processed
\* and direct extraction never is; the text worked on is the OCR text and the
\* combining entry point records method forced_ocr; an empty OCR result ends
\* single-document processing with the no-extractable-text error and is
\* recorded as failed_with_sample when combining, whatever direct extraction
\* would have returned.
C24_ForcedOcrNeverExtracts ==
  (use_ocr /\ entry \in {"single", "multi"}) =>
    /\ \A k \in 1..Len(calls) : calls[k][2] # "extract"
    /\ \A k \in 1..Len(pdf_paths) :
         /\ Started(k) => <<k, "ocr">> \in Range(calls)
         /\ (Started(k) /\ k = idx) =>
              /\ text = OcrOf(k)
              /\ entry = "multi" => processing_method = "forced_ocr"
         /\ (entry = "multi" /\ Exists(k) /\ k < idx /\ Quiet(k)) =>
              \E e \in {processing_summary[SummaryIndex(k)]} :
                IF Strip(OcrOf(k)) = <<>>
                  THEN e.status = "failed_with_sample"
                  ELSE /\ e.status = "success"
                       /\ e.method = "forced_ocr"
                       /\ e.text_length = Len(Strip(OcrOf(k)))
    /\ (entry = "single" /\ pc = "done" /\ Exists(1) /\ Strip(OcrOf(1)) = <<>>) =>
         outcome = "ValueError: No text could be extracted" /\ excel = <<>>

\* forced OCR over a document with direct text but no OCR text, then one with
\* OCR text: the first is recorded as failed_with_sample, the second as
\* success with method forced_ocr
C24_Witness ==
  /\ entry = "multi" /\ use_ocr /\ pc = "done"
  /\ Len(pdf_paths) = 2
  /\ Strip(DirectOf(1)) # <<>> /\ Strip(OcrOf(1)) = <<>>
  /\ Strip(OcrOf(2)) # <<>>
  /\ calls = << <<1, "ocr">>, <<2, "ocr">> >>
  /\ Len(processing_summary) = 2
  /\ processing_summary[1].status = "failed_with_sample"
  /\ processing_summary[2].method = "forced_ocr"

\* number of rows of the template phase
TemplateRows == Len(equipment_attributes)

\* C25: all rows returned by one call of format_text_to_structure carry the
\* same functional location and the same document reference, the rows of the
\* template phase and the rows of the line scan alike.
C25_RowsShareLocationAndReference ==
  (entry = "structure" /\ probe.done) =>
    \A i, j \in 1..Len(probe.rows) :
      /\ probe.rows[i][1] = probe.rows[j][1]
      /\ probe.rows[i][11] = probe.rows[j][11]

\* a call on two lines that each hold a location, the first also a keyword:
\* the scan row of the first line carries the location of the template rows
C25_Witness ==
  /\ entry = "structure" /\ probe.done
  /\ probe.input.lines = <<7, 4>>
  /\ Len(probe.rows) = TemplateRows + 1
  /\ probe.rows[1][1] = VocabularyLocation[4]
  /\ probe.rows[TemplateRows + 1][1] = probe.rows[1][1]
  /\ probe.rows[TemplateRows + 1][11] = probe.rows[1][11]

\* the rows start with the template: one row per entry of
\* equipment_attributes, in order, numbered from 1
StartsWithTemplate(rows) ==
  /\ Len(rows) >= TemplateRows
  /\ \A i \in 1..TemplateRows :
       /\ rows[i][4] = i
       /\ rows[i][5] = equipment_attributes[i][1]
       /\ rows[i][6] = equipment_attributes[i][2]

HasText(t) == \E i \in 1..Len(t) : t[i] \notin Whitespace

\* format_text_to_structure on the texts of the structuring vocabulary, side by
\* side with the two entry points that call it
StructureAndCallersInit == Init \/ StructureInit

StructureAndCallersNext == Next \/ StructureNext

SpecStructureAndCallers == StructureAndCallersInit /\ [][StructureAndCallersNext]_vars

\* C26: for a text with at least one non-whitespace character
\* format_text_to_structure returns at least 15 rows, the first 15 being the
\* template entries at positions 1..15; hence no document is ever recorded
\* with status sample_data and single-document processing never fails with
\* 'No data could be structured'.
C26_TemplateRowsAlwaysPresent ==
  /\ TemplateRows = 15
  /\ (entry = "structure" /\ probe.done /\ HasText(StructureText(probe.input))) =>
       StartsWithTemplate(probe.rows)
  /\ entry \in {"single", "multi"} =>
       /\ outcome # "ValueError: No data could be structured"
       /\ \A k \in 1..Len(processing_summary) :
            /\ processing_summary[k].status # "sample_data"
            /\ processing_summary[k].status = "success" =>
                 processing_summary[k].rows >= 15
       /\ (entry = "single" /\ pc \in {"write", "done"} /\ structured_data # <<>>) =>
            StartsWithTemplate(structured_data)
       /\ (entry = "multi" /\ idx > 1 /\ pc = "start" /\ Quiet(idx - 1) /\ Exists(idx - 1)
             /\ HasText(text)) =>
            StartsWithTemplate(structured_data)

\* a document with text has been structured and written: its rows start with
\* the 15 template rows, the entry without a value among them
C26_Witness ==
  /\ entry = "single" /\ pc = "done" /\ outcome = "returned"
  /\ HasText(text)
  /\ Len(excel[1]) >= 15
  /\ excel[1][5][6] = <<>> /\ excel[1][5][4] = 5
  /\ excel[1][15][4] = 15

\* the sum of the row counts of the first k summary entries
RECURSIVE SummaryRows(_)
SummaryRows(k) == IF k = 0 THEN 0 ELSE SummaryRows(k - 1) + processing_summary[k].rows

\* the documents whose loop iteration is over
Visited == {k \in 1..Len(pdf_paths) : k < idx}

\* C27: throughout the loop of process_multiple_pdfs_to_excel the number of
\* accumulated rows is the sum of the row counts of the summary entries; the
\* summary holds exactly one entry for each visited path that exists, in
\* input order; a path that does not exist adds no entry and no rows.
C27_SummaryAccountsForRows ==
  entry = "multi" =>
    /\ Len(all_structured_data) = SummaryRows(Len(processing_summary))
    /\ Len(processing_summary) = Cardinality({k \in Visited : Exists(k)})
    /\ \A k \in Visited :
         Exists(k) => processing_summary[SummaryIndex(k)].file = Stem(DocAt(k).path)
    /\ (\A k \in Visited : ~Exists(k)) =>
         processing_summary = <<>> /\ all_structured_data = <<>>

\* a missing path followed by a document with text: one entry, whose row
\* count is the number of accumulated rows
C27_Witness ==
  /\ entry = "multi" /\ pc = "done" /\ Len(pdf_paths) = 2
  /\ ~Exists(1) /\ Exists(2)
  /\ Len(processing_summary) = 1
  /\ processing_summary[1].rows = Len(all_structured_data)
  /\ Len(all_structured_data) >= 15

\* the places in the log of strategy calls where `kind` ran for the k-th document
CallsOf(k, kind) == {c \in 1..Len(calls) : calls[c] = <<k, kind>>}

\* C28: for each document, with or without forced OCR and in both entry
\* points, direct extraction runs at most once and OCR runs at most once, and
\* when both run direct extraction comes first; nothing runs for a document
\* after its OCR, and nothing runs for a document that does not exist.
C28_EachStrategyAtMostOnce ==
  entry \in {"single", "multi"} =>
    \A k \in 1..Len(pdf_paths) :
      /\ Cardinality(CallsOf(k, "extract")) <= 1
      /\ Cardinality(CallsOf(k, "ocr")) <= 1
      /\ \A e \in CallsOf(k, "extract") : \A o \in CallsOf(k, "ocr") : e < o
      /\ \A c \in 1..Len(calls) :
           calls[c][1] = k => /\ calls[c][2] \in {"extract", "ocr"}
                              /\ Exists(k)
                              /\ \A d \in 1..c : calls[d][1] <= k

\* two documents whose direct text is not good enough: for each, direct
\* extraction and then OCR, once
C28_Witness ==
  /\ entry = "multi" /\ ~use_ocr /\ pc = "done"
  /\ calls = << <<1, "extract">>, <<1, "ocr">>, <<2, "extract">>, <<2, "ocr">> >>
  /\ Len(processing_summary) = 2

\* C29: process_pdf_to_excel writes at most one table, and only after a text
\* with a non-whitespace character was selected and gave a non-empty sequence
\* of rows, which is what is written; when the file is missing or no text
\* could be extracted it writes nothing, and a write is the last thing it does.
C29_WritesOnceAfterRows ==
  /\ entry = "single" =>
       /\ Len(excel) <= 1
       /\ excel # <<>> =>
            /\ Exists(1)
            /\ HasText(text)
            /\ excel[1] # <<>>
            /\ excel[1] = structured_data
            /\ outcome = "returned" /\ pc = "done"
       /\ (pc = "done" /\ ~Exists(1)) =>
            outcome = "FileNotFoundError" /\ excel = <<>> /\ calls = <<>>
       /\ (pc = "done" /\ Exists(1) /\ ~HasText(text)) =>
            outcome = "ValueError: No text could be extracted" /\ excel = <<>>
       /\ outcome = "returned" => Len(excel) = 1

\* a document without direct text whose OCR text is structured and written
C29_Witness ==
  /\ entry = "single" /\ ~use_ocr /\ pc = "done" /\ outcome = "returned"
  /\ Strip(DirectOf(1)) = <<>> /\ text = OcrOf(1)
  /\ Len(excel) = 1 /\ Len(excel[1]) >= 15

====
